---- MODULE Spec2Model ----
(***************************************************************************)
(* A model of one execution of VideoWorkflowAgent.run (src/src/workflow.py) *)
(* together with the agents it drives (src/src/agents/*.py), the skills     *)
(* behind them (src/src/skills/*.py), the video generator                   *)
(* (src/src/video_generator.py) and the repositories of                     *)
(* src/src/repository.py.                                                   *)
(*                                                                          *)
(* Conventions.                                                             *)
(*   - A Python Optional value is a sequence of length at most one:         *)
(*     None is << >> and a present value v is <<v>>.                        *)
(*   - A database table is the sequence of its committed rows; the primary  *)
(*     key of a row is its index (autoincrement ids start at 1).            *)
(*   - Every repository call in the source is flushed and committed (or     *)
(*     rolled back) inside the handler that makes it, so a handler is one   *)
(*     action and the tables hold committed rows only.  A commit that       *)
(*     raises leaves the table as it was.                                   *)
(*   - What a collaborator does (the story generator, the renderer, ffmpeg, *)
(*     the uploader, the database) is an input of the action, drawn with \E.*)
(*   - Exceptions carry a non-empty message, drawn from fixed strings.      *)
(***************************************************************************)
EXTENDS Integers, Sequences, FiniteSets, TLC

(***************************************************************************)
(* Bounds of the model.                                                    *)
(***************************************************************************)
MaxPrompts == 2      \* video_prompts of a generated story: 0..MaxPrompts
MaxStored == 1       \* rows of story_history before the run: 0..MaxStored
MaxEpisode == 1      \* explicit episode_number argument: 0..MaxEpisode
MaxClock == 2        \* the clock runs 1..MaxClock

(***************************************************************************)
(* Program constants.                                                      *)
(***************************************************************************)
HistoryLimit == 50       \* StoryAgent.get_history(limit=50)
SaveHistoryLimit == 100  \* save_history_node: get_history(limit=100)

(***************************************************************************)
(* Optional values and Python truthiness.                                  *)
(***************************************************************************)
None == << >>
Some(v) == << v >>

\* bool(x) of an Optional[int]: None and 0 are falsy.
TruthyInt(o) == o # None /\ o[1] # 0
\* bool(x) of an Optional[str]: None and "" are falsy.
TruthyStr(o) == o # None /\ o[1] # ""
\* `a or b` on Optional[str] values.
OrStr(a, b) == IF TruthyStr(a) THEN a ELSE b
\* s[-1] of a non-empty list.
Last(s) == s[Len(s)]

VARIABLES
    settings,      \* src/src/config.py: skip_video_generation, test_video_path
    args,          \* the arguments of run: episode_number, private
    pc,            \* where run is
    state,         \* the WorkflowState threaded through the graph
    execution_id,  \* run's local variable execution_id
    caught,        \* the exception run's `except Exception` clause caught
    raised,        \* the exception that left run
    stories,       \* table story_history
    videos,        \* table video_generations
    uploads,       \* table youtube_uploads
    ledger,        \* table workflow_executions
    now,           \* the clock (whole seconds)
    calls,         \* how often each collaborator was invoked, and how often it raised
    executed,      \* the graph nodes executed, in order
    failedStages,  \* the stage nodes that recorded an error
    writeFailed,   \* the repository writes that raised and were rolled back
    va,            \* VideoAgent.run executed on its own, step by step
    runs,          \* several calls of run executing concurrently on one store
    merging,       \* calls of merge_videos overlapping in one output directory
    operation,     \* the render operation that generate_video is polling
    session        \* the agent's db_session, run's local session, the open sessions

runVars == << settings, args, pc, state, execution_id, caught, raised >>
dbVars == << stories, videos, uploads, ledger >>
obsVars == << calls, executed, failedStages, writeFailed >>
vars == << settings, args, pc, state, execution_id, caught, raised,
           stories, videos, uploads, ledger, now, calls, executed, failedStages,
           writeFailed, va, runs, merging, operation, session >>

(***************************************************************************)
(* src/src/models.py: WorkflowState and its defaults.                      *)
(***************************************************************************)
WorkflowState(episode_number, privacy_status, exec_id) ==
    [ episode_number      |-> episode_number,
      privacy_status      |-> privacy_status,
      story               |-> None,
      story_history       |-> << >>,
      story_id            |-> None,
      final_video_path    |-> None,
      video_generation_id |-> None,
      upload_result       |-> None,
      youtube_upload_id   |-> None,
      error               |-> None,
      current_step        |-> "start",
      execution_id        |-> exec_id ]

(***************************************************************************)
(* src/src/db_models.py: a row of workflow_executions as the ORM creates   *)
(* it; started_at is the server default now().                             *)
(***************************************************************************)
WorkflowExecution(episode_number, status, t) ==
    [ episode_number      |-> episode_number,
      status              |-> status,
      current_step        |-> None,
      story_id            |-> None,
      video_generation_id |-> None,
      youtube_upload_id   |-> None,
      error_message       |-> None,
      started_at          |-> t,
      completed_at        |-> None,
      duration_seconds    |-> None ]

(***************************************************************************)
(* src/src/repository.py: WorkflowExecutionRepository.                     *)
(***************************************************************************)
\* A datetime: the reading of a wall clock in whole seconds and the offset
\* of its timezone from UTC, None for a datetime without tzinfo.  The clock
\* `now` counts UTC seconds.
AwareUTC(t) == [ wall |-> t, tzinfo |-> Some(0) ]
Aware(t, offset) == [ wall |-> t + offset, tzinfo |-> Some(offset) ]
Naive(t) == [ wall |-> t, tzinfo |-> None ]

\* Mutant of as_utc: a datetime without tzinfo is left as it is.
as_utc_unchanged(d) == d

\* update, lines 217-219: started.replace(tzinfo=timezone.utc) when
\* started.tzinfo is None.
as_utc(d) == IF d.tzinfo = None THEN [d EXCEPT !.tzinfo = Some(0)] ELSE d

\* update, lines 220-221: int((completed_at - started).total_seconds()).
\* Subtracting a datetime without tzinfo from an aware one raises TypeError:
\* None.
duration_seconds(completed_at, started_at) ==
    LET started == as_utc(started_at)
    IN IF started.tzinfo = None \/ completed_at.tzinfo = None THEN None
       ELSE Some((completed_at.wall - completed_at.tzinfo[1])
                    - (started.wall - started.tzinfo[1]))

\* Mutant of exec_repo_create: the row is never added to the session.
exec_repo_create_lost(tbl, episode_number, status, t) == tbl

\* create: the table with the new row appended; its id is the new length.
exec_repo_create(tbl, episode_number, status, t) ==
    Append(tbl, WorkflowExecution(episode_number, status, t))

\* Mutant of exec_repo_update: the error message is not written.
exec_repo_update_no_message(tbl, id, status, current_step, story_id, video_generation_id, youtube_upload_id, error_message, t) ==
    IF id \notin DOMAIN tbl THEN tbl
    ELSE LET r0 == tbl[id]
             r1 == IF TruthyStr(status) THEN [r0 EXCEPT !.status = status[1]] ELSE r0
             r3 == IF TruthyInt(story_id) THEN [r1 EXCEPT !.story_id = story_id] ELSE r1
             r4 == IF TruthyInt(video_generation_id)
                   THEN [r3 EXCEPT !.video_generation_id = video_generation_id] ELSE r3
             r5 == IF TruthyInt(youtube_upload_id)
                   THEN [r4 EXCEPT !.youtube_upload_id = youtube_upload_id] ELSE r4
             r7 == IF status \in {Some("completed"), Some("failed")}
                   THEN [r5 EXCEPT !.completed_at = Some(t),
                                   !.duration_seconds =
                                        duration_seconds(AwareUTC(t), AwareUTC(r5.started_at))]
                   ELSE r5
         IN [tbl EXCEPT ![id] = r7]

\* update: every argument is written only when it is truthy; a status of
\* completed or failed stamps completed_at and duration_seconds.  The column
\* started_at is DateTime(timezone=True): the row read back carries an aware
\* datetime.
exec_repo_update(tbl, id, status, current_step, story_id, video_generation_id, youtube_upload_id, error_message, t) ==
    IF id \notin DOMAIN tbl THEN tbl
    ELSE LET r0 == tbl[id]
             r1 == IF TruthyStr(status) THEN [r0 EXCEPT !.status = status[1]] ELSE r0
             r2 == IF TruthyStr(current_step)
                   THEN [r1 EXCEPT !.current_step = current_step] ELSE r1
             r3 == IF TruthyInt(story_id) THEN [r2 EXCEPT !.story_id = story_id] ELSE r2
             r4 == IF TruthyInt(video_generation_id)
                   THEN [r3 EXCEPT !.video_generation_id = video_generation_id] ELSE r3
             r5 == IF TruthyInt(youtube_upload_id)
                   THEN [r4 EXCEPT !.youtube_upload_id = youtube_upload_id] ELSE r4
             r6 == IF TruthyStr(error_message)
                   THEN [r5 EXCEPT !.error_message = error_message] ELSE r5
             r7 == IF status \in {Some("completed"), Some("failed")}
                   THEN [r6 EXCEPT !.completed_at = Some(t),
                                   !.duration_seconds =
                                        duration_seconds(AwareUTC(t), AwareUTC(r6.started_at))]
                   ELSE r6
         IN [tbl EXCEPT ![id] = r7]

(***************************************************************************)
(* src/src/repository.py: StoryRepository.                                 *)
(***************************************************************************)
StoredStory(e) == [ episode |-> e ]

\* The ids of tbl ordered by descending episode (ties by id).
RECURSIVE OrderByEpisodeDesc(_, _)
OrderByEpisodeDesc(tbl, ids) ==
    IF ids = {} THEN << >>
    ELSE LET top == CHOOSE i \in ids :
                        \A j \in ids : \/ tbl[i].episode > tbl[j].episode
                                       \/ tbl[i].episode = tbl[j].episode /\ i <= j
         IN << top >> \o OrderByEpisodeDesc(tbl, ids \ {top})

\* get_latest: select ... order by episode desc limit `limit`.
get_latest(tbl, limit) ==
    LET ordered == OrderByEpisodeDesc(tbl, DOMAIN tbl)
        n == IF Len(ordered) < limit THEN Len(ordered) ELSE limit
    IN [ i \in 1..n |-> tbl[ordered[i]] ]

\* StoryRepository.create with its flush: story_history.episode is unique,
\* so the insert raises when a row of that episode exists.
story_repo_create_raises(tbl, episode) == \E i \in DOMAIN tbl : tbl[i].episode = episode

story_repo_create(tbl, episode) == Append(tbl, StoredStory(episode))

(***************************************************************************)
(* src/src/skills/base.py: SkillResult.                                    *)
(***************************************************************************)
SkillSuccess(data) == [ status |-> "success", data |-> Some(data), error |-> None ]

\* Mutant of SkillFailed: the failed result is left pending and keeps data.
SkillFailed_pending(error) == [ status |-> "pending", data |-> Some(error), error |-> None ]

SkillFailed(error) == [ status |-> "failed", data |-> None, error |-> Some(error) ]
is_success(r) == r.status = "success"

(***************************************************************************)
(* src/src/story_generator.py: GeminiStoryGenerator.                       *)
(***************************************************************************)
DefaultPrompts == 3      \* video_prompts of the default story document

\* The text of a generator response, by what parsing makes of it:
\*   missing        response.text is None
\*   empty          the empty string
\*   no_object      text without a {...} part
\*   invalid_json   a {...} part that json.loads rejects
\*   invalid_fields a JSON object that Story(**data, episode, date) rejects
\*                  (a required field missing or ill-typed, a duplicate key)
\*   valid          a JSON object of a story with k video prompts
ResponseKinds == { "missing", "empty", "no_object", "invalid_json", "invalid_fields", "valid" }

Responses ==
    { [ kind |-> kd, k |-> 0 ] : kd \in ResponseKinds \ {"valid"} }
        \cup { [ kind |-> "valid", k |-> n ] : n \in 0..MaxPrompts }

\* A story document parsed from a response: k prompts.
Story(episode, k) ==
    [ episode |-> episode, title |-> "generated", video_prompts |-> [ i \in 1..k |-> i ] ]

\* The default document of parse_story_response.
DefaultStory(episode) ==
    [ episode |-> episode, title |-> "default",
      video_prompts |-> [ i \in 1..DefaultPrompts |-> i ] ]

\* text[:500] if text else the fixed sentence (lines 112 and 120): a text
\* that is None or empty is falsy.
fallback_text(text) ==
    IF text.kind \in {"missing", "empty"} THEN "fixed sentence" ELSE text.kind

\* Mutant of DefaultStoryDocument: the title carries the time of the call.
DefaultStoryDocument_stamped(text, episode, t) ==
    [ episode |-> episode, title |-> "default " \o ToString(t), dish |-> "fixed dish",
      summary |-> "fixed summary", story |-> fallback_text(text),
      cooking_steps |-> << 1, 2, 3 >>,
      video_prompts |-> [ i \in 1..DefaultPrompts |-> i ],
      tags |-> << 1, 2, 3 >>, description |-> fallback_text(text), date |-> t ]

\* Lines 108-124: the default document in full, built at time t.  The title
\* is made of the episode, story and description of the text, the prompts
\* of the configured character name, the date of the clock.
DefaultStoryDocument(text, episode, t) ==
    [ episode |-> episode, title |-> "default", dish |-> "fixed dish",
      summary |-> "fixed summary", story |-> fallback_text(text),
      cooking_steps |-> << 1, 2, 3 >>,
      video_prompts |-> [ i \in 1..DefaultPrompts |-> i ],
      tags |-> << 1, 2, 3 >>, description |-> fallback_text(text), date |-> t ]

\* The exception the try block of parse_story_response raises, "" if none:
\* re.search on None, json.loads, the Story constructor.
parse_error(text) ==
    CASE text.kind = "missing" -> "TypeError"
      [] text.kind = "invalid_json" -> "JSONDecodeError"
      [] text.kind = "invalid_fields" -> "ValidationError"
      [] OTHER -> ""

\* Mutant of parse_catches: only the JSON decoding error is caught.
parse_catches_json_only(exc) == exc = "JSONDecodeError"

\* except (json.JSONDecodeError, Exception): every exception is caught.
parse_catches(exc) == exc \in { "JSONDecodeError", "TypeError", "ValidationError" }

\* parse_story_response: the parsed story, the default story when the text
\* holds no object or parsing raised, or the exception that escapes.
parse_story_response(text, episode) ==
    LET exc == parse_error(text)
    IN IF exc # "" /\ ~parse_catches(exc)
       THEN [ raised |-> TRUE, story |-> None ]
       ELSE IF exc = "" /\ text.kind = "valid"
       THEN [ raised |-> FALSE, story |-> Some(Story(episode, text.k)) ]
       ELSE [ raised |-> FALSE, story |-> Some(DefaultStory(episode)) ]

\* GeminiStoryGenerator.generate_story.  history_len is the length of the
\* loaded story history; response is None when generate_content raises,
\* else the text of the response.  What is raised is raised again.
generator_generate_story(episode_number, history_len, response) ==
    LET episode == IF episode_number # 0 THEN episode_number ELSE history_len + 1
    IN IF response = None
       THEN [ raised |-> TRUE, story |-> None ]
       ELSE parse_story_response(response[1], episode)

(***************************************************************************)
(* src/src/agents/story_agent.py and src/src/skills/story_skills.py.       *)
(***************************************************************************)
\* GenerateStorySkill.execute: the history is loaded into the generator when
\* it is not empty (the generator's own history starts empty).
GenerateStorySkill(episode_number, history, response) ==
    LET out == generator_generate_story(episode_number, Len(history), response)
    IN IF out.raised THEN SkillFailed("Story generation failed")
       ELSE SkillSuccess(out.story[1])

\* GetStoryHistorySkill.execute: the latest rows, or a failed result.
GetStoryHistorySkill(tbl, limit, dbOk) ==
    IF dbOk THEN SkillSuccess(get_latest(tbl, limit))
    ELSE SkillFailed("Failed to get story history")

\* StoryAgent.get_history: the skill's data, [] when the skill failed.
get_history(tbl, limit, dbOk) ==
    LET r == GetStoryHistorySkill(tbl, limit, dbOk)
    IN IF is_success(r) THEN r.data[1] ELSE << >>

\* SaveStorySkill.execute: insert and commit, or roll back and fail.
SaveStorySkill(tbl, episode, dbOk) ==
    IF dbOk /\ ~story_repo_create_raises(tbl, episode)
    THEN [ result |-> SkillSuccess(Len(tbl) + 1), stories |-> story_repo_create(tbl, episode),
           rolled_back |-> FALSE ]
    ELSE [ result |-> SkillFailed("Failed to save story"), stories |-> tbl,
           rolled_back |-> TRUE ]

\* StoryAgent.run with save_to_db = True and a session.  response is what
\* the generator's API call does; histOk and saveOk say whether the history
\* query and the insert with its commit get through to the database.
\* The result, the story table afterwards, and whether a write was rolled
\* back.
StoryAgent_run(tbl, episode_arg, histOk, response, saveOk) ==
    LET history == get_history(tbl, HistoryLimit, histOk)
        episode == IF episode_arg = None THEN Len(history) + 1 ELSE episode_arg[1]
        generated == GenerateStorySkill(episode, history, response)
        save == SaveStorySkill(tbl, episode, saveOk)
    IN IF ~is_success(generated)
       THEN [ result |-> [ story |-> None, story_id |-> None, episode |-> episode,
                           success |-> FALSE, error |-> Some("Failed to generate story") ],
              stories |-> tbl, rolled_back |-> FALSE ]
       ELSE [ result |-> [ story |-> generated.data, episode |-> episode, success |-> TRUE,
                           story_id |-> IF is_success(save.result) THEN save.result.data
                                        ELSE None,
                           error |-> None ],
              stories |-> save.stories, rolled_back |-> save.rolled_back ]

(***************************************************************************)
(* src/src/repository.py: VideoGenerationRepository, YouTubeUploadRepository*)
(***************************************************************************)
video_repo_create(tbl, story_id, status) ==
    Append(tbl, [ story_id |-> story_id, status |-> status,
                  video_path |-> None, error_message |-> None ])

\* Mutant of video_repo_update: the path is not written.
video_repo_update_no_path(tbl, id, status, video_path, error_message) ==
    IF id \notin DOMAIN tbl THEN tbl
    ELSE LET r0 == tbl[id]
             r1 == IF TruthyStr(status) THEN [r0 EXCEPT !.status = status[1]] ELSE r0
             r3 == IF TruthyStr(error_message)
                   THEN [r1 EXCEPT !.error_message = error_message] ELSE r1
         IN [tbl EXCEPT ![id] = r3]

video_repo_update(tbl, id, status, video_path, error_message) ==
    IF id \notin DOMAIN tbl THEN tbl
    ELSE LET r0 == tbl[id]
             r1 == IF TruthyStr(status) THEN [r0 EXCEPT !.status = status[1]] ELSE r0
             r2 == IF TruthyStr(video_path) THEN [r1 EXCEPT !.video_path = video_path] ELSE r1
             r3 == IF TruthyStr(error_message)
                   THEN [r2 EXCEPT !.error_message = error_message] ELSE r2
         IN [tbl EXCEPT ![id] = r3]

upload_repo_create(tbl, story_id, video_id, video_url, video_generation_id, privacy_status) ==
    Append(tbl, [ story_id |-> story_id, video_generation_id |-> video_generation_id,
                  video_id |-> video_id, video_url |-> video_url,
                  status |-> "completed", privacy_status |-> privacy_status ])

(***************************************************************************)
(* src/src/video_generator.py: Veo3VideoGenerator.                         *)
(***************************************************************************)
\* The file names are made of the clock's whole seconds.
VeoFile(t) == "veo3_" \o ToString(t) \o ".mp4"
MockFile(t) == "mock_video_" \o ToString(t) \o ".mp4"
\* The output file name VideoAgent.run is given by generate_videos_node.
OutputFile == "video.mp4"

\* Mutant of generate_video: a failed render is reported as failed.
generate_video_no_fallback(rendererOk, t) ==
    IF rendererOk
    THEN [ video_url |-> Some(VeoFile(t)), status |-> "completed", mock |-> FALSE ]
    ELSE [ video_url |-> None, status |-> "failed", mock |-> FALSE ]

\* generate_video at time t: the renderer's result, or the mock result when
\* the renderer raised; both are completed and carry a path.
generate_video(rendererOk, t) ==
    IF rendererOk
    THEN [ video_url |-> Some(VeoFile(t)), status |-> "completed", mock |-> FALSE ]
    ELSE [ video_url |-> Some(MockFile(t)), status |-> "completed", mock |-> TRUE ]

\* Mutant of accumulate: the path is put in front of the list.
accumulate_in_front(videos_, result) ==
    IF TruthyStr(result.video_url) /\ result.status = "completed"
    THEN << result.video_url[1] >> \o videos_
    ELSE videos_

\* The body of the loop of generate_video_sequence (lines 113-114).
accumulate(videos_, result) ==
    IF TruthyStr(result.video_url) /\ result.status = "completed"
    THEN Append(videos_, result.video_url[1])
    ELSE videos_

\* The loop of generate_video_sequence: the accumulated paths, in order.
RECURSIVE AccumulateVideos(_, _, _)
AccumulateVideos(videos_, renders, t) ==
    IF renders = << >> THEN videos_
    ELSE AccumulateVideos(accumulate(videos_, generate_video(Head(renders), t)),
                          Tail(renders), t)

\* Mutant of merge_needed: a single path is merged, too.
merge_needed_for_one(videos_) == Len(videos_) >= 1

\* generate_video_sequence line 117: the paths are merged when there are
\* more than one.
merge_needed(videos_) == Len(videos_) > 1

\* generate_video_sequence line 120: what is returned without merging.
unmerged_value(videos_) == IF videos_ # << >> THEN videos_[1] ELSE ""

\* Mutant of merge_videos: a failed ffmpeg run is answered with the first
\* segment.
merge_videos_falls_back(video_paths, mergeOk) ==
    IF mergeOk THEN [ raised |-> FALSE, value |-> OutputFile ]
    ELSE [ raised |-> FALSE, value |-> video_paths[1] ]

\* merge_videos after the file list is written: ffmpeg returns and the
\* output path is returned, or it fails and the error is raised again.
merge_videos(video_paths, mergeOk) ==
    IF mergeOk THEN [ raised |-> FALSE, value |-> OutputFile ]
    ELSE [ raised |-> TRUE, value |-> "" ]

\* generate_video_sequence: renders[i] says whether the renderer succeeds on
\* prompt i, mergeOk whether ffmpeg does.  value is the returned path, or
\* raised is TRUE when merge_videos raised.
generate_video_sequence(renders, mergeOk, t) ==
    LET videos_ == AccumulateVideos(<< >>, renders, t)
        out == IF merge_needed(videos_) THEN merge_videos(videos_, mergeOk)
               ELSE [ raised |-> FALSE, value |-> unmerged_value(videos_) ]
    IN [ paths  |-> videos_,
         merged |-> merge_needed(videos_),
         raised |-> out.raised,
         value  |-> out.value ]

(***************************************************************************)
(* src/src/agents/video_agent.py and src/src/skills/video_skills.py.       *)
(***************************************************************************)
\* VideoAgent.run lines 159-168: the progress record is created when a
\* story id is given; a failed insert is rolled back and gives no id.
VideoAgent_create(tbl, story_id, saveOk) ==
    IF ~TruthyInt(story_id)
    THEN [ videos |-> tbl, video_generation_id |-> None, rolled_back |-> {} ]
    ELSE IF saveOk
    THEN [ videos |-> video_repo_create(tbl, story_id[1], "processing"),
           video_generation_id |-> Some(Len(tbl) + 1), rolled_back |-> {} ]
    ELSE [ videos |-> tbl, video_generation_id |-> None, rolled_back |-> {"save_video"} ]

\* GenerateVideoSequenceSkill.execute and VideoAgent.generate_video_sequence:
\* the path, None when the generator raised.
sequence_video_path(seq) == IF seq.raised THEN None ELSE Some(seq.value)

\* GenerateVideoSequenceSkill.execute: the path the generator returned, or a
\* failed result when generate_video_sequence raised.
GenerateVideoSequenceSkill(renders, mergeOk, t) ==
    LET seq == generate_video_sequence(renders, mergeOk, t)
    IN IF seq.raised THEN SkillFailed("Video sequence generation failed")
       ELSE SkillSuccess(seq.value)

\* Mutant of VideoAgent_finish: the record is not updated on a failure.
VideoAgent_finish_no_failed_update(tbl, video_generation_id, segment_count, video_path, updateOk) ==
    LET error_msg == "Failed to generate video sequence"
        completed == Some("completed")
        upd(status, path, msg) ==
            IF TruthyInt(video_generation_id) /\ updateOk /\ status = completed
            THEN video_repo_update(tbl, video_generation_id[1], status, path, msg)
            ELSE tbl
        rolled_back == IF TruthyInt(video_generation_id) /\ ~updateOk
                       THEN {"update_video"} ELSE {}
        issued(status) == IF TruthyInt(video_generation_id) THEN Some(status) ELSE None
    IN IF ~TruthyStr(video_path)
       THEN [ result |-> [ video_path |-> None,
                           video_generation_id |-> video_generation_id,
                           segment_count |-> segment_count,
                           success |-> FALSE, error |-> Some(error_msg) ],
              videos |-> upd(Some("failed"), None, Some(error_msg)),
              update |-> issued("failed"),
              rolled_back |-> rolled_back ]
       ELSE [ result |-> [ video_path |-> video_path,
                           video_generation_id |-> video_generation_id,
                           segment_count |-> segment_count,
                           success |-> TRUE, error |-> None ],
              videos |-> upd(Some("completed"), video_path, None),
              update |-> issued("completed"),
              rolled_back |-> rolled_back ]

\* VideoAgent.run lines 182-212: the progress record is updated (a failed
\* update is rolled back and ignored) and the result is built.  update is
\* the status of the update that was issued, None when there is no record.
VideoAgent_finish(tbl, video_generation_id, segment_count, video_path, updateOk) ==
    LET error_msg == "Failed to generate video sequence"
        upd(status, path, msg) ==
            IF TruthyInt(video_generation_id) /\ updateOk
            THEN video_repo_update(tbl, video_generation_id[1], status, path, msg)
            ELSE tbl
        rolled_back == IF TruthyInt(video_generation_id) /\ ~updateOk
                       THEN {"update_video"} ELSE {}
        issued(status) == IF TruthyInt(video_generation_id) THEN Some(status) ELSE None
    IN IF ~TruthyStr(video_path)
       THEN [ result |-> [ video_path |-> None,
                           video_generation_id |-> video_generation_id,
                           segment_count |-> segment_count,
                           success |-> FALSE, error |-> Some(error_msg) ],
              videos |-> upd(Some("failed"), None, Some(error_msg)),
              update |-> issued("failed"),
              rolled_back |-> rolled_back ]
       ELSE [ result |-> [ video_path |-> video_path,
                           video_generation_id |-> video_generation_id,
                           segment_count |-> segment_count,
                           success |-> TRUE, error |-> None ],
              videos |-> upd(Some("completed"), video_path, None),
              update |-> issued("completed"),
              rolled_back |-> rolled_back ]

\* VideoAgent.run with a session, at time t.  saveOk and updateOk say
\* whether the insert and the update of the progress record (with their
\* commits) succeed.  The result, the video table afterwards, the calls made
\* and the writes that were rolled back.
VideoAgent_run(tbl, prompts, story_id, renders, mergeOk, saveOk, updateOk, t) ==
    LET created == VideoAgent_create(tbl, story_id, saveOk)
        seq == generate_video_sequence(renders, mergeOk, t)
        fin == VideoAgent_finish(created.videos, created.video_generation_id, Len(prompts),
                                 sequence_video_path(seq), updateOk)
    IN [ result |-> fin.result,
         videos |-> fin.videos,
         renders |-> Len(renders), merges |-> IF seq.merged THEN 1 ELSE 0,
         merge_raised |-> IF seq.merged /\ seq.raised THEN 1 ELSE 0,
         rolled_back |-> created.rolled_back \cup fin.rolled_back ]

(***************************************************************************)
(* src/src/agents/youtube_agent.py and src/src/skills/youtube_skills.py.   *)
(***************************************************************************)
\* Mutant of YouTubeAgent_run: a failed upload is reported as a success.
YouTubeAgent_run_failure_lost(tbl, story_id, video_generation_id, privacy_status, uploadOk, saveOk) ==
    [ result |-> [ video_id |-> IF uploadOk THEN Some("yt-id") ELSE None,
                   video_url |-> IF uploadOk THEN Some("yt-url") ELSE None,
                   upload_record_id |-> None, success |-> TRUE, error |-> None ],
      uploads |-> tbl, rolled_back |-> FALSE ]

\* YouTubeAgent.run with a session.  uploadOk says whether the uploader
\* returns, saveOk whether the insert of the upload record succeeds.
YouTubeAgent_run(tbl, story_id, video_generation_id, privacy_status, uploadOk, saveOk) ==
    IF ~uploadOk
    THEN [ result |-> [ video_id |-> None, video_url |-> None, upload_record_id |-> None,
                        success |-> FALSE,
                        error |-> Some("Failed to upload video to YouTube") ],
           uploads |-> tbl, rolled_back |-> FALSE ]
    ELSE LET saves == TruthyInt(story_id)
             saved == IF saves /\ saveOk
                      THEN upload_repo_create(tbl, story_id[1], "yt-id", "yt-url",
                                              video_generation_id, privacy_status)
                      ELSE tbl
         IN [ result |-> [ video_id |-> Some("yt-id"), video_url |-> Some("yt-url"),
                           upload_record_id |-> IF saves /\ saveOk
                                                THEN Some(Len(saved)) ELSE None,
                           success |-> TRUE, error |-> None ],
              uploads |-> saved, rolled_back |-> saves /\ ~saveOk ]

\* VideoAgent.run is not being executed on its own.
VideoAgentIdle == [ pc |-> "idle" ]

\* No concurrent calls of run: the id sequence of workflow_executions is at
\* its start.
NoRuns == [ next_id |-> 1, run |-> << >> ]

\* No calls of merge_videos are being followed: filelist.txt is absent.
NoMerging == [ filelist |-> None, merge |-> << >> ]

\* No render operation is awaited step by step.
NoOperation == [ done |-> TRUE ]

\* workflow.py 22-27: the agent is constructed with the caller's session
\* or without one; which sessions are open.
VideoWorkflowAgent(supplied) ==
    [ db_session |-> IF supplied THEN Some("supplied") ELSE None,
      local |-> None,
      open |-> IF supplied THEN {"supplied"} ELSE {} ]

\* workflow.py 283-293: session = self.db_session; without one a session
\* is created and stored in self.db_session.
run_session(s) ==
    IF s.db_session = None
    THEN [ db_session |-> Some("created"), local |-> Some("created"),
           open |-> s.open \cup {"created"} ]
    ELSE [s EXCEPT !.local = s.db_session]

\* workflow.py 352-355: `if session and not self.db_session: close`.
run_finally(s) ==
    IF s.local # None /\ s.db_session = None
    THEN [s EXCEPT !.open = @ \ {s.local[1]}]
    ELSE s

(***************************************************************************)
(* The state after construction and before run is called.                  *)
(***************************************************************************)
InitWith(op) ==
    /\ settings \in [ skip_video_generation : BOOLEAN,
                      test_video_path : {"", "test.mp4"} ]
    /\ args \in [ episode_number : {None} \cup {Some(e) : e \in 0..MaxEpisode},
                  private : BOOLEAN ]
    /\ pc = "run"
    /\ state = WorkflowState(None, "public", None)
    /\ execution_id = None
    /\ caught = None
    /\ raised = None
    /\ \E n \in 0..MaxStored : stories = [ i \in 1..n |-> StoredStory(i) ]
    /\ videos = << >>
    /\ uploads = << >>
    /\ ledger = << >>
    /\ now = 1
    /\ calls = [ generate |-> 0, generate_raised |-> 0, render |-> 0, merge |-> 0,
                 merge_raised |-> 0, upload |-> 0, upload_raised |-> 0,
                 commit_raised |-> 0 ]
    /\ executed = << >>
    /\ failedStages = {}
    /\ writeFailed = {}
    /\ va = VideoAgentIdle
    /\ runs = NoRuns
    /\ merging = NoMerging
    /\ operation = op
    /\ \E supplied \in BOOLEAN : session = VideoWorkflowAgent(supplied)

\* The polling loop of generate_video is folded into generate_videos_node.
Init == InitWith(NoOperation)

(***************************************************************************)
(* Time passes between any two steps.                                      *)
(***************************************************************************)
Tick ==
    /\ now < MaxClock
    /\ now' = now + 1
    /\ UNCHANGED << runVars, dbVars, obsVars, va, runs, merging, operation, session >>

(***************************************************************************)
(* workflow.py 277-310: run up to the graph invocation.  The ledger row is *)
(* created with status running and committed; create or commit may raise.  *)
(***************************************************************************)
RunEntry ==
    /\ pc = "run"
    /\ \E outcome \in {"ok", "create_raises", "commit_raises"} :
        LET id == Len(ledger) + 1
            privacy_status == IF args.private THEN "private" ELSE "public"
        IN  /\ ledger' = IF outcome = "ok"
                         THEN exec_repo_create(ledger, args.episode_number, "running", now)
                         ELSE ledger
            /\ execution_id' = IF outcome = "create_raises" THEN None ELSE Some(id)
            /\ state' = IF outcome = "ok"
                        THEN WorkflowState(args.episode_number, privacy_status, Some(id))
                        ELSE state
            /\ caught' = CASE outcome = "ok" -> None
                           [] outcome = "create_raises" -> Some("ledger create failed")
                           [] OTHER -> Some("ledger commit failed")
            /\ pc' = IF outcome = "ok" THEN "load_history" ELSE "except"
    /\ session' = run_session(session)
    /\ UNCHANGED << settings, args, raised, stories, videos, uploads, now, obsVars, va, runs, merging, operation >>

(***************************************************************************)
(* workflow.py 72-96: load_history_node.  run has set _use_db, so the      *)
(* history comes from the database; a failed query gives [].               *)
(***************************************************************************)
load_history_node ==
    /\ pc = "load_history"
    /\ \E histOk \in BOOLEAN :
        state' = [state EXCEPT !.story_history = get_history(stories, HistoryLimit, histOk),
                               !.current_step = "load_history"]
    /\ pc' = "generate_story"
    /\ executed' = Append(executed, "load_history")
    /\ UNCHANGED << settings, args, execution_id, caught, raised, dbVars, now,
                    calls, failedStages, writeFailed, va, runs, merging, operation, session >>

(***************************************************************************)
(* workflow.py 98-123: generate_story_node.                                *)
(***************************************************************************)
generate_story_node ==
    /\ pc = "generate_story"
    /\ \E histOk \in BOOLEAN, response \in {None} \cup {Some(t) : t \in Responses}, saveOk \in BOOLEAN :
        LET episode == IF TruthyInt(state.episode_number)
                       THEN state.episode_number
                       ELSE Some(Len(state.story_history) + 1)
            out == StoryAgent_run(stories, episode, histOk, response, saveOk)
            result == out.result
        IN  /\ stories' = out.stories
            /\ writeFailed' = IF out.rolled_back THEN writeFailed \cup {"save_story"}
                              ELSE writeFailed
            /\ calls' = [calls EXCEPT !.generate = @ + 1,
                                      !.generate_raised = IF response = None THEN @ + 1 ELSE @]
            /\ IF ~result.success \/ result.story = None
               THEN /\ state' = [state EXCEPT
                            !.error = OrStr(result.error, Some("story generation failed")),
                            !.current_step = "error"]
                    /\ failedStages' = failedStages \cup {"generate_story"}
               ELSE /\ state' = [state EXCEPT !.story = result.story,
                                              !.story_id = result.story_id,
                                              !.current_step = "generate_story"]
                    /\ UNCHANGED failedStages
    /\ pc' = "after_generate_story"
    /\ executed' = Append(executed, "generate_story")
    /\ UNCHANGED << settings, args, execution_id, caught, raised,
                    videos, uploads, ledger, now, va, runs, merging, operation, session >>

(***************************************************************************)
(* workflow.py 125-167: generate_videos_node.                              *)
(***************************************************************************)
\* Whether the node gets as far as generate_video's polling loop
\* (video_generator.py 70-74): a story with prompts and no skip switch.
renders_awaited(cfg, st) ==
    /\ st.story # None
    /\ ~cfg.skip_video_generation
    /\ Len(st.story[1].video_prompts) > 0

\* Mutant of skipped_videos_state: the configured path is not taken over.
skipped_videos_state_no_path(st, path) == [st EXCEPT !.current_step = "generate_videos"]

\* Lines 139-141: with the skip switch on, the state takes the test video.
skipped_videos_state(st, path) ==
    [st EXCEPT !.final_video_path = Some(path),
               !.video_generation_id = None,
               !.current_step = "generate_videos"]

generate_videos_node ==
    /\ pc = "generate_videos"
    /\ renders_awaited(settings, state) => operation.done
    /\ IF state.story = None
       THEN /\ state' = [state EXCEPT !.error = Some("no story was generated"),
                                      !.current_step = "error"]
            /\ failedStages' = failedStages \cup {"generate_videos"}
            /\ UNCHANGED << videos, calls, writeFailed >>
       ELSE IF settings.skip_video_generation
       THEN /\ IF settings.test_video_path = ""
               THEN /\ state' = [state EXCEPT !.error = Some("test_video_path is not set"),
                                              !.current_step = "error"]
                    /\ failedStages' = failedStages \cup {"generate_videos"}
               ELSE /\ state' = skipped_videos_state(state, settings.test_video_path)
                    /\ UNCHANGED failedStages
            /\ UNCHANGED << videos, calls, writeFailed >>
       ELSE \E renders \in [1..Len(state.story[1].video_prompts) -> BOOLEAN],
               mergeOk \in BOOLEAN, saveOk \in BOOLEAN, updateOk \in BOOLEAN :
            LET out == VideoAgent_run(videos, state.story[1].video_prompts, state.story_id,
                                      renders, mergeOk, saveOk, updateOk, now)
                result == out.result
            IN  /\ videos' = out.videos
                /\ writeFailed' = writeFailed \cup out.rolled_back
                /\ calls' = [calls EXCEPT !.render = @ + out.renders,
                                          !.merge = @ + out.merges,
                                          !.merge_raised = @ + out.merge_raised]
                /\ IF ~result.success \/ ~TruthyStr(result.video_path)
                   THEN /\ state' = [state EXCEPT
                                !.error = OrStr(result.error, Some("video generation failed")),
                                !.current_step = "error"]
                        /\ failedStages' = failedStages \cup {"generate_videos"}
                   ELSE /\ state' = [state EXCEPT
                                !.final_video_path = result.video_path,
                                !.video_generation_id = result.video_generation_id,
                                !.current_step = "generate_videos"]
                        /\ UNCHANGED failedStages
    /\ pc' = "after_generate_videos"
    /\ executed' = Append(executed, "generate_videos")
    /\ UNCHANGED << settings, args, execution_id, caught, raised,
                    stories, uploads, ledger, now, va, runs, merging, operation, session >>

(***************************************************************************)
(* workflow.py 169-207: upload_to_youtube_node.                            *)
(***************************************************************************)
upload_to_youtube_node ==
    /\ pc = "upload_to_youtube"
    /\ IF state.story = None \/ ~TruthyStr(state.final_video_path)
       THEN /\ state' = [state EXCEPT !.error = Some("no story or video path"),
                                      !.current_step = "error"]
            /\ failedStages' = failedStages \cup {"upload_to_youtube"}
            /\ UNCHANGED << uploads, calls, writeFailed >>
       ELSE \E uploadOk \in BOOLEAN, saveOk \in BOOLEAN :
            LET out == YouTubeAgent_run(uploads, state.story_id, state.video_generation_id,
                                        state.privacy_status, uploadOk, saveOk)
                result == out.result
            IN  /\ uploads' = out.uploads
                /\ writeFailed' = IF out.rolled_back THEN writeFailed \cup {"save_upload"}
                                  ELSE writeFailed
                /\ calls' = [calls EXCEPT !.upload = @ + 1,
                                          !.upload_raised = IF uploadOk THEN @ ELSE @ + 1]
                /\ IF ~result.success
                   THEN /\ state' = [state EXCEPT
                                !.error = OrStr(result.error, Some("YouTube upload failed")),
                                !.current_step = "error"]
                        /\ failedStages' = failedStages \cup {"upload_to_youtube"}
                   ELSE /\ state' = [state EXCEPT
                                !.upload_result =
                                    Some([ video_id |-> OrStr(result.video_id, Some(""))[1],
                                           url |-> OrStr(result.video_url, Some(""))[1] ]),
                                !.youtube_upload_id = result.upload_record_id,
                                !.current_step = "upload_to_youtube"]
                        /\ UNCHANGED failedStages
    /\ pc' = "after_upload_to_youtube"
    /\ executed' = Append(executed, "upload_to_youtube")
    /\ UNCHANGED << settings, args, execution_id, caught, raised,
                    stories, videos, ledger, now, va, runs, merging, operation, session >>

(***************************************************************************)
(* workflow.py 209-251: save_history_node.  With a session it commits and  *)
(* reloads the history; a commit that raises records the error and rolls   *)
(* back, and current_step is left as it was.                               *)
(***************************************************************************)
save_history_node ==
    /\ pc = "save_history"
    /\ \E commitOk \in BOOLEAN, histOk \in BOOLEAN :
        /\ state' = IF commitOk
                     THEN [state EXCEPT
                             !.story_history = get_history(stories, SaveHistoryLimit, histOk),
                             !.current_step = "save_history"]
                     ELSE [state EXCEPT !.error = Some("history commit failed")]
        /\ calls' = [calls EXCEPT !.commit_raised = IF commitOk THEN @ ELSE @ + 1]
    /\ pc' = "end"
    /\ executed' = Append(executed, "save_history")
    /\ UNCHANGED << settings, args, execution_id, caught, raised, dbVars, now,
                    failedStages, writeFailed, va, runs, merging, operation, session >>

(***************************************************************************)
(* workflow.py 253-257: handle_error_node.                                 *)
(***************************************************************************)
handle_error_node ==
    /\ pc = "handle_error"
    /\ state' = [state EXCEPT !.current_step = "error"]
    /\ pc' = "end"
    /\ executed' = Append(executed, "handle_error")
    /\ UNCHANGED << settings, args, execution_id, caught, raised, dbVars, now,
                    calls, failedStages, writeFailed, va, runs, merging, operation, session >>

(***************************************************************************)
(* workflow.py 259-275: the conditions of the conditional edges.           *)
(***************************************************************************)
\* Mutant of should_continue_after_story: the run always continues.
should_continue_after_story_always(st) == "continue"

should_continue_after_story(st) ==
    IF TruthyStr(st.error) \/ st.story = None THEN "error" ELSE "continue"

\* Mutant of should_continue_after_videos: the two branches are swapped.
should_continue_after_videos_swapped(st) ==
    IF TruthyStr(st.error) \/ ~TruthyStr(st.final_video_path) THEN "continue" ELSE "error"

should_continue_after_videos(st) ==
    IF TruthyStr(st.error) \/ ~TruthyStr(st.final_video_path) THEN "error" ELSE "continue"

\* Mutant of should_continue_after_upload: the run always continues.
should_continue_after_upload_always(st) == "continue"

should_continue_after_upload(st) ==
    IF TruthyStr(st.error) \/ st.upload_result = None THEN "error" ELSE "continue"

(***************************************************************************)
(* workflow.py 37-70: _build_graph, the conditional edges.                 *)
(***************************************************************************)
\* Mutant of edge_after_story: "continue" is wired to upload_to_youtube.
edge_after_story_to_upload ==
    /\ pc = "after_generate_story"
    /\ pc' = IF should_continue_after_story(state) = "continue"
             THEN "upload_to_youtube" ELSE "handle_error"
    /\ UNCHANGED << settings, args, state, execution_id, caught, raised, dbVars, now,
                    obsVars, va, runs, merging, operation, session >>

edge_after_story ==
    /\ pc = "after_generate_story"
    /\ pc' = IF should_continue_after_story(state) = "continue"
             THEN "generate_videos" ELSE "handle_error"
    /\ UNCHANGED << settings, args, state, execution_id, caught, raised, dbVars, now,
                    obsVars, va, runs, merging, operation, session >>

edge_after_videos ==
    /\ pc = "after_generate_videos"
    /\ pc' = IF should_continue_after_videos(state) = "continue"
             THEN "upload_to_youtube" ELSE "handle_error"
    /\ UNCHANGED << settings, args, state, execution_id, caught, raised, dbVars, now,
                    obsVars, va, runs, merging, operation, session >>

edge_after_upload ==
    /\ pc = "after_upload_to_youtube"
    /\ pc' = IF should_continue_after_upload(state) = "continue"
             THEN "save_history" ELSE "handle_error"
    /\ UNCHANGED << settings, args, state, execution_id, caught, raised, dbVars, now,
                    obsVars, va, runs, merging, operation, session >>

(***************************************************************************)
(* workflow.py 313: graph.ainvoke raises.  A node catches what its try    *)
(* block encloses; what a node raises outside it (a print before the try   *)
(* or in an except clause, the rollback of save_history_node at line 249)  *)
(* leaves ainvoke and reaches run's except clause.                         *)
(***************************************************************************)
GraphNodes ==
    { "load_history", "generate_story", "generate_videos", "upload_to_youtube",
      "save_history", "handle_error" }

ainvoke_raises ==
    /\ pc \in GraphNodes
    /\ caught' = Some("graph raised")
    /\ pc' = "except"
    /\ UNCHANGED << settings, args, state, execution_id, raised, dbVars, now, obsVars, va, runs, merging, operation, session >>

\* Mutant of exit_status: the two outcomes are swapped.
exit_status_swapped(error) == IF ~TruthyStr(error) THEN "failed" ELSE "completed"

\* workflow.py 320: status = "completed" if not error else "failed".
exit_status(error) == IF ~TruthyStr(error) THEN "completed" ELSE "failed"

(***************************************************************************)
(* workflow.py 315-332: run after the graph returned.  The ledger row is   *)
(* updated from the final state and committed; update or commit may raise. *)
(***************************************************************************)
RunExitUpdate ==
    /\ pc = "end"
    /\ \E outcome \in {"ok", "update_raises", "commit_raises"} :
        LET error == state.error
            status == exit_status(error)
        IN  /\ ledger' = IF outcome = "ok" /\ TruthyInt(execution_id)
                         THEN exec_repo_update(ledger, execution_id[1], Some(status), None,
                                               state.story_id, state.video_generation_id,
                                               state.youtube_upload_id, error, now)
                         ELSE ledger
            /\ caught' = CASE outcome = "ok" \/ ~TruthyInt(execution_id) -> None
                           [] outcome = "update_raises" -> Some("ledger update failed")
                           [] OTHER -> Some("ledger commit failed")
            /\ pc' = IF outcome = "ok" \/ ~TruthyInt(execution_id)
                     THEN "report" ELSE "except"
    /\ UNCHANGED << settings, args, state, execution_id, raised,
                    stories, videos, uploads, now, obsVars, va, runs, merging, operation, session >>

(***************************************************************************)
(* workflow.py 334-344: run prints the outcome and returns the final state;*)
(* a print may raise (a closed or non-encoding stdout).  The finally       *)
(* clause (352-355) runs when run returns.                                 *)
(***************************************************************************)
RunReport ==
    /\ pc = "report"
    /\ \E printOk \in BOOLEAN :
        /\ caught' = IF printOk THEN None ELSE Some("print failed")
        /\ pc' = IF printOk THEN "returned" ELSE "except"
        /\ session' = IF printOk THEN run_finally(session) ELSE session
    /\ UNCHANGED << settings, args, state, execution_id, raised, dbVars, now, obsVars, va, runs, merging, operation >>

(***************************************************************************)
(* workflow.py 345-355: run's except and finally clauses.  With an execution id the     *)
(* ledger row is set to failed with the exception's message and committed, *)
(* then the exception is raised again; when that update or commit raises,  *)
(* its exception is the one that leaves run.                               *)
(***************************************************************************)
RunExcept ==
    /\ pc = "except"
    /\ \E outcome \in {"ok", "update_raises", "commit_raises"} :
        IF ~TruthyInt(execution_id) \/ outcome = "ok"
        THEN /\ ledger' = IF TruthyInt(execution_id)
                          THEN exec_repo_update(ledger, execution_id[1], Some("failed"), None,
                                                None, None, None, caught, now)
                          ELSE ledger
             /\ raised' = caught
        ELSE /\ UNCHANGED ledger
             /\ raised' = IF outcome = "update_raises"
                          THEN Some("ledger update failed in except")
                          ELSE Some("ledger commit failed in except")
    /\ pc' = "raised"
    /\ session' = run_finally(session)
    /\ UNCHANGED << settings, args, state, execution_id, caught,
                    stories, videos, uploads, now, obsVars, va, runs, merging, operation >>

Next ==
    \/ Tick
    \/ RunEntry
    \/ load_history_node
    \/ generate_story_node
    \/ edge_after_story
    \/ generate_videos_node
    \/ edge_after_videos
    \/ upload_to_youtube_node
    \/ edge_after_upload
    \/ save_history_node
    \/ handle_error_node
    \/ ainvoke_raises
    \/ RunExitUpdate
    \/ RunReport
    \/ RunExcept

Spec == Init /\ [][Next]_vars

(***************************************************************************)
(* run with the polling loop of Veo3VideoGenerator.generate_video          *)
(* (src/src/video_generator.py 66-74) followed poll by poll: the render    *)
(* operation is started not done, and every 10 seconds it is fetched       *)
(* again.  One operation stands for the renders of the node.               *)
(***************************************************************************)
PendingOperation == [ done |-> FALSE ]

LiveInit == InitWith(PendingOperation)

\* Line 74: operation = client.operations.get(operation).  The fetched
\* operation is pending or done; a fetch that raises leaves the loop for
\* the mock result (lines 88-91).
get_operation(op, outcome) == [ done |-> outcome # "pending" ]

poll_operation ==
    /\ pc = "generate_videos"
    /\ renders_awaited(settings, state)
    /\ ~operation.done
    /\ \E outcome \in {"pending", "done", "raised"} :
            operation' = get_operation(operation, outcome)
    /\ UNCHANGED << runVars, dbVars, obsVars, now, va, runs, merging, session >>

\* The steps run takes when the call it awaits returns or raises into the
\* awaiting code: everything but the passing of time and an exception that
\* leaves the graph, which nothing obliges to happen.
RunStep ==
    \/ RunEntry
    \/ load_history_node
    \/ generate_story_node
    \/ edge_after_story
    \/ generate_videos_node
    \/ edge_after_videos
    \/ upload_to_youtube_node
    \/ edge_after_upload
    \/ save_history_node
    \/ handle_error_node
    \/ RunExitUpdate
    \/ RunReport
    \/ RunExcept

LiveNext ==
    \/ Next
    \/ poll_operation

\* Every external call eventually returns or raises, so run keeps taking
\* steps; a render operation is eventually reported done, so the polling
\* loop eventually fetches an operation that differs from the pending one.
LiveSpec ==
    /\ LiveInit
    /\ [][LiveNext]_vars
    /\ WF_vars(RunStep)
    /\ WF_vars(poll_operation)

(***************************************************************************)
(* VideoAgent.run (src/src/agents/video_agent.py 139-227) executed on its  *)
(* own and followed step by step through                                   *)
(* Veo3VideoGenerator.generate_video_sequence: one step where a render     *)
(* starts and one where it returns, one where ffmpeg is started and one    *)
(* where it returns.  The fields of va:                                    *)
(*   pc                   where the call is                                *)
(*   prompts, story_id    the arguments                                    *)
(*   video_generation_id  the id of the progress record                    *)
(*   started              the prompts whose render has started, in order   *)
(*   rendered             the results of the renders that returned         *)
(*   paths                the list `videos` of generate_video_sequence     *)
(*   filelist             the lines of filelist.txt, None when absent      *)
(*   merge_args           the path lists handed to merge_videos            *)
(*   ffmpeg               whether the ffmpeg run succeeded, None before    *)
(*   sequence             what generate_video_sequence returned or raised  *)
(*   update               the status of the record update that was issued  *)
(*   result               the VideoAgentResult                             *)
(***************************************************************************)
MaxSegments == 3     \* prompts of a call of VideoAgent.run: 0..MaxSegments

VideoAgentCall(k, story_id) ==
    [ pc |-> "start", prompts |-> [ i \in 1..k |-> i ], story_id |-> story_id,
      video_generation_id |-> None, started |-> << >>, rendered |-> << >>,
      paths |-> << >>, filelist |-> None, merge_args |-> << >>, ffmpeg |-> None,
      sequence |-> None, update |-> None, result |-> None ]

\* What VideoAgent.run does not touch.
callerVars ==
    << settings, args, pc, state, execution_id, caught, raised, stories, uploads, ledger,
       executed, failedStages, runs, merging, operation, session >>

VideoInit ==
    /\ settings = [ skip_video_generation |-> FALSE, test_video_path |-> "" ]
    /\ args = [ episode_number |-> None, private |-> FALSE ]
    /\ pc = "generate_videos"
    /\ state = WorkflowState(None, "public", None)
    /\ execution_id = None
    /\ caught = None
    /\ raised = None
    /\ stories = << >>
    /\ videos = << >>
    /\ uploads = << >>
    /\ ledger = << >>
    /\ now = 1
    /\ calls = [ generate |-> 0, generate_raised |-> 0, render |-> 0, merge |-> 0,
                 merge_raised |-> 0, upload |-> 0, upload_raised |-> 0,
                 commit_raised |-> 0 ]
    /\ executed = << >>
    /\ failedStages = {}
    /\ writeFailed = {}
    /\ \E k \in 0..MaxSegments, story_id \in {None, Some(1)} :
            va = VideoAgentCall(k, story_id)
    /\ runs = NoRuns
    /\ merging = NoMerging
    /\ operation = NoOperation
    /\ session = VideoWorkflowAgent(TRUE)

\* video_agent.py 159-168: the progress record is created.
VideoAgent_start ==
    /\ va.pc = "start"
    /\ \E saveOk \in BOOLEAN :
        LET created == VideoAgent_create(videos, va.story_id, saveOk)
        IN  /\ videos' = created.videos
            /\ writeFailed' = writeFailed \cup created.rolled_back
            /\ va' = [va EXCEPT !.pc = "loop",
                                !.video_generation_id = created.video_generation_id]
    /\ UNCHANGED << callerVars, now, calls >>

\* video_generator.py 108-111: the loop takes the next prompt and awaits
\* generate_video on it.
generate_video_start ==
    /\ va.pc = "loop"
    /\ Len(va.rendered) < Len(va.prompts)
    /\ va' = [va EXCEPT !.pc = "rendering",
                        !.started = Append(@, va.prompts[Len(va.rendered) + 1])]
    /\ calls' = [calls EXCEPT !.render = @ + 1]
    /\ UNCHANGED << callerVars, videos, now, writeFailed >>

\* video_generator.py 111-114: generate_video returns and the path of a
\* completed result is accumulated.
generate_video_return ==
    /\ va.pc = "rendering"
    /\ \E rendererOk \in BOOLEAN :
        LET result == generate_video(rendererOk, now)
        IN va' = [va EXCEPT !.pc = "loop",
                            !.rendered = Append(@, [ prompt |-> Last(va.started),
                                                     result |-> result ]),
                            !.paths = accumulate(@, result)]
    /\ UNCHANGED << callerVars, videos, now, calls, writeFailed >>

\* video_generator.py 116-132: after the loop.  More than one path: the
\* file list is written and ffmpeg is started; else the single path or ""
\* is returned.
sequence_end ==
    /\ va.pc = "loop"
    /\ Len(va.rendered) = Len(va.prompts)
    /\ IF merge_needed(va.paths)
       THEN /\ va' = [va EXCEPT !.pc = "merge",
                                !.filelist = Some(va.paths),
                                !.merge_args = Append(@, va.paths)]
            /\ calls' = [calls EXCEPT !.merge = @ + 1]
       ELSE /\ va' = [va EXCEPT !.pc = "finish",
                                !.sequence = Some([ raised |-> FALSE,
                                                    value |-> unmerged_value(va.paths) ])]
            /\ UNCHANGED calls
    /\ UNCHANGED << callerVars, videos, now, writeFailed >>

\* video_generator.py 134-157: ffmpeg returns; on success the file list is
\* removed.
ffmpeg_return ==
    /\ va.pc = "merge"
    /\ \E mergeOk \in BOOLEAN :
        va' = [va EXCEPT !.pc = "finish",
                         !.filelist = IF mergeOk THEN None ELSE @,
                         !.ffmpeg = Some(mergeOk),
                         !.sequence = Some(merge_videos(Last(va.merge_args), mergeOk))]
        /\ calls' = [calls EXCEPT !.merge_raised = IF mergeOk THEN @ ELSE @ + 1]
    /\ UNCHANGED << callerVars, videos, now, writeFailed >>

\* video_agent.py 176-212: the record is updated and the result returned.
VideoAgent_return ==
    /\ va.pc = "finish"
    /\ \E updateOk \in BOOLEAN :
        LET fin == VideoAgent_finish(videos, va.video_generation_id, Len(va.prompts),
                                     sequence_video_path(va.sequence[1]), updateOk)
        IN  /\ videos' = fin.videos
            /\ writeFailed' = writeFailed \cup fin.rolled_back
            /\ va' = [va EXCEPT !.pc = "done", !.update = fin.update,
                                !.result = Some(fin.result)]
    /\ UNCHANGED << callerVars, now, calls >>

VideoNext ==
    \/ Tick
    \/ VideoAgent_start
    \/ generate_video_start
    \/ generate_video_return
    \/ sequence_end
    \/ ffmpeg_return
    \/ VideoAgent_return

VideoSpec == VideoInit /\ [][VideoNext]_vars

(***************************************************************************)
(* Several calls of VideoWorkflowAgent.run executing concurrently, each    *)
(* with its own agent and session (RunWorkflowSkill.execute,               *)
(* src/src/skills/project_skills.py 106-116), on one database.  A step is  *)
(* what one run does between two points where another run can be           *)
(* scheduled and see the database change: the insert of the ledger row     *)
(* with its flush (the row gets its id from the sequence of the table and  *)
(* is visible to its own session only), the commit, each graph node with   *)
(* the edge that follows it (and handle_error on the error branch), and    *)
(* the end of run, where only the run's own ledger row is written.         *)
(* runs.next_id is the next value of the id sequence of                    *)
(* workflow_executions; runs.run[r] holds the local variables of run r.    *)
(* The ledger is a function from the ids of the committed rows.            *)
(* The generator, the uploader and the final print may fail; the database  *)
(* accepts every write except an insert that breaks the unique episode of  *)
(* story_history (what a failed write does to a run is followed in Spec).  *)
(***************************************************************************)
MaxRuns == 2         \* concurrent calls of run

WorkflowRun(episode_number) ==
    [ args |-> [ episode_number |-> episode_number, private |-> FALSE ],
      pc |-> "run",
      state |-> WorkflowState(None, "public", None),
      execution_id |-> None,
      caught |-> None,
      raised |-> None ]

\* What the concurrent runs do not touch.
soloVars ==
    << settings, args, pc, state, execution_id, caught, raised, now, calls, executed,
       failedStages, writeFailed, va, merging, operation, session >>

\* Mutant of ledger_nextval: the sequence hands out the same id again.
ledger_nextval_stuck(seq) == seq

\* db_models.py 94: the primary key of workflow_executions is drawn from
\* the table's sequence, which never hands out a value twice.
ledger_nextval(seq) == seq + 1

\* WorkflowExecutionRepository.create, committed: the row under its id.
exec_repo_insert(tbl, id, episode_number, status, t) ==
    IF id \in DOMAIN tbl THEN tbl
    ELSE [ i \in DOMAIN tbl \cup {id} |->
             IF i = id THEN WorkflowExecution(episode_number, status, t) ELSE tbl[i] ]

ConcInit ==
    /\ settings = [ skip_video_generation |-> FALSE, test_video_path |-> "" ]
    /\ args = [ episode_number |-> None, private |-> FALSE ]
    /\ pc = "run"
    /\ state = WorkflowState(None, "public", None)
    /\ execution_id = None
    /\ caught = None
    /\ raised = None
    /\ stories = << >>
    /\ videos = << >>
    /\ uploads = << >>
    /\ ledger = << >>
    /\ now = 1
    /\ calls = [ generate |-> 0, generate_raised |-> 0, render |-> 0, merge |-> 0,
                 merge_raised |-> 0, upload |-> 0, upload_raised |-> 0,
                 commit_raised |-> 0 ]
    /\ executed = << >>
    /\ failedStages = {}
    /\ writeFailed = {}
    /\ va = VideoAgentIdle
    /\ merging = NoMerging
    /\ operation = NoOperation
    /\ session = VideoWorkflowAgent(TRUE)
    /\ runs = [ next_id |-> 1, run |-> [ r \in 1..MaxRuns |-> WorkflowRun(None) ] ]

\* workflow.py 253-257: on the error branch of an edge handle_error runs
\* next; it touches the run's own state only.
after_node(st, branch) ==
    IF branch = "continue" THEN st ELSE [st EXCEPT !.current_step = "error"]

\* workflow.py 299-301: create with its flush; the row gets its id.
run_create ==
    \E r \in DOMAIN runs.run :
        /\ runs.run[r].pc = "run"
        /\ runs' = [runs EXCEPT !.next_id = ledger_nextval(@),
                                !.run[r].execution_id = Some(runs.next_id),
                                !.run[r].pc = "commit"]
        /\ UNCHANGED << soloVars, dbVars >>

\* workflow.py 302-310: the commit makes the row visible; the initial state.
run_commit ==
    \E r \in DOMAIN runs.run :
        LET me == runs.run[r]
        IN  /\ me.pc = "commit"
            /\ ledger' = exec_repo_insert(ledger, me.execution_id[1],
                                          me.args.episode_number, "running", now)
            /\ runs' = [runs EXCEPT
                            !.run[r].state = WorkflowState(me.args.episode_number, "public",
                                                           me.execution_id),
                            !.run[r].pc = "load_history"]
            /\ UNCHANGED << soloVars, stories, videos, uploads >>

\* workflow.py 72-96.
run_load_history ==
    \E r \in DOMAIN runs.run :
        /\ runs.run[r].pc = "load_history"
        /\ runs' = [runs EXCEPT
                        !.run[r].state.story_history = get_history(stories, HistoryLimit, TRUE),
                        !.run[r].state.current_step = "load_history",
                        !.run[r].pc = "generate_story"]
        /\ UNCHANGED << soloVars, dbVars >>

\* workflow.py 98-123 and the edge after it.
run_generate_story ==
    \E r \in DOMAIN runs.run :
        LET st == runs.run[r].state
        IN  /\ runs.run[r].pc = "generate_story"
            /\ \E response \in {None, Some([ kind |-> "valid", k |-> 1 ])} :
                LET episode == IF TruthyInt(st.episode_number)
                               THEN st.episode_number
                               ELSE Some(Len(st.story_history) + 1)
                    out == StoryAgent_run(stories, episode, TRUE, response, TRUE)
                    result == out.result
                    st2 == IF ~result.success \/ result.story = None
                           THEN [st EXCEPT
                                    !.error = OrStr(result.error, Some("story generation failed")),
                                    !.current_step = "error"]
                           ELSE [st EXCEPT !.story = result.story,
                                           !.story_id = result.story_id,
                                           !.current_step = "generate_story"]
                IN  /\ stories' = out.stories
                    /\ runs' = [runs EXCEPT
                            !.run[r].state = after_node(st2, should_continue_after_story(st2)),
                            !.run[r].pc = IF should_continue_after_story(st2) = "continue"
                                          THEN "generate_videos" ELSE "end"]
            /\ UNCHANGED << soloVars, videos, uploads, ledger >>

\* workflow.py 125-167 (skip mode off) and the edge after it.
run_generate_videos ==
    \E r \in DOMAIN runs.run :
        LET st == runs.run[r].state
        IN  /\ runs.run[r].pc = "generate_videos"
            /\ st.story # None
            /\ LET renders == [ i \in 1..Len(st.story[1].video_prompts) |-> TRUE ]
                    out == VideoAgent_run(videos, st.story[1].video_prompts, st.story_id,
                                          renders, TRUE, TRUE, TRUE, now)
                    result == out.result
                    st2 == IF ~result.success \/ ~TruthyStr(result.video_path)
                           THEN [st EXCEPT
                                    !.error = OrStr(result.error, Some("video generation failed")),
                                    !.current_step = "error"]
                           ELSE [st EXCEPT
                                    !.final_video_path = result.video_path,
                                    !.video_generation_id = result.video_generation_id,
                                    !.current_step = "generate_videos"]
                IN  /\ videos' = out.videos
                    /\ runs' = [runs EXCEPT
                            !.run[r].state = after_node(st2, should_continue_after_videos(st2)),
                            !.run[r].pc = IF should_continue_after_videos(st2) = "continue"
                                          THEN "upload_to_youtube" ELSE "end"]
            /\ UNCHANGED << soloVars, stories, uploads, ledger >>

\* workflow.py 169-207 and the edge after it.
run_upload_to_youtube ==
    \E r \in DOMAIN runs.run :
        LET st == runs.run[r].state
        IN  /\ runs.run[r].pc = "upload_to_youtube"
            /\ st.story # None /\ TruthyStr(st.final_video_path)
            /\ \E uploadOk \in BOOLEAN :
                LET out == YouTubeAgent_run(uploads, st.story_id, st.video_generation_id,
                                            st.privacy_status, uploadOk, TRUE)
                    result == out.result
                    st2 == IF ~result.success
                           THEN [st EXCEPT
                                    !.error = OrStr(result.error, Some("YouTube upload failed")),
                                    !.current_step = "error"]
                           ELSE [st EXCEPT
                                    !.upload_result =
                                        Some([ video_id |-> OrStr(result.video_id, Some(""))[1],
                                               url |-> OrStr(result.video_url, Some(""))[1] ]),
                                    !.youtube_upload_id = result.upload_record_id,
                                    !.current_step = "upload_to_youtube"]
                IN  /\ uploads' = out.uploads
                    /\ runs' = [runs EXCEPT
                            !.run[r].state = after_node(st2, should_continue_after_upload(st2)),
                            !.run[r].pc = IF should_continue_after_upload(st2) = "continue"
                                          THEN "save_history" ELSE "end"]
            /\ UNCHANGED << soloVars, stories, videos, ledger >>

\* workflow.py 209-251.
run_save_history ==
    \E r \in DOMAIN runs.run :
        /\ runs.run[r].pc = "save_history"
        /\ runs' = [runs EXCEPT
                        !.run[r].state.story_history =
                            get_history(stories, SaveHistoryLimit, TRUE),
                        !.run[r].state.current_step = "save_history",
                        !.run[r].pc = "end"]
        /\ UNCHANGED << soloVars, dbVars >>

\* workflow.py 315-351: the ledger row is updated from the final state, the
\* outcome is printed and the state returned.  When a print raises, the
\* except clause sets the row to failed with the exception's message and
\* the exception leaves run.
run_exit_update ==
    \E r \in DOMAIN runs.run :
        LET me == runs.run[r]
            status == exit_status(me.state.error)
            updated == exec_repo_update(ledger, me.execution_id[1], Some(status), None,
                                        me.state.story_id, me.state.video_generation_id,
                                        me.state.youtube_upload_id, me.state.error, now)
            caught_ == Some("print failed")
        IN  /\ me.pc = "end"
            /\ \E printOk \in BOOLEAN :
                IF printOk
                THEN /\ ledger' = updated
                     /\ runs' = [runs EXCEPT !.run[r].pc = "returned"]
                ELSE /\ ledger' = exec_repo_update(updated, me.execution_id[1],
                                                   Some("failed"), None, None, None, None,
                                                   caught_, now)
                     /\ runs' = [runs EXCEPT !.run[r].caught = caught_,
                                             !.run[r].raised = caught_,
                                             !.run[r].pc = "raised"]
            /\ UNCHANGED << soloVars, stories, videos, uploads >>

ConcNext ==
    \/ run_create
    \/ run_commit
    \/ run_load_history
    \/ run_generate_story
    \/ run_generate_videos
    \/ run_upload_to_youtube
    \/ run_save_history
    \/ run_exit_update

ConcSpec == ConcInit /\ [][ConcNext]_vars

(***************************************************************************)
(* Veo3VideoGenerator.merge_videos (src/src/video_generator.py 122-157)    *)
(* called by several runs whose Video stages overlap.  All calls use the   *)
(* one file output_dir/filelist.txt.  A call writes the list, awaits       *)
(* ffmpeg in a thread (the concatenation tool opens the list some time     *)
(* after it was started), and removes the list when ffmpeg succeeded.  The *)
(* fields of a call:                                                       *)
(*   pc           where the call is                                        *)
(*   video_paths  the argument: the ordered segments of its run            *)
(*   read         the lines ffmpeg read, None when the list was absent     *)
(*   opened       whether ffmpeg has opened the list                       *)
(***************************************************************************)
\* The segment files of run r: their names carry the run.
segment_paths(r, n) == [ i \in 1..n |-> << r, i >> ]

MergeCall(r, n) ==
    [ pc |-> "start", video_paths |-> segment_paths(r, n), read |-> None, opened |-> FALSE ]

\* What merge_videos does not touch.
mergeCallerVars == << runVars, dbVars, obsVars, now, va, runs, operation, session >>

MergeInit ==
    /\ settings = [ skip_video_generation |-> FALSE, test_video_path |-> "" ]
    /\ args = [ episode_number |-> None, private |-> FALSE ]
    /\ pc = "generate_videos"
    /\ state = WorkflowState(None, "public", None)
    /\ execution_id = None
    /\ caught = None
    /\ raised = None
    /\ stories = << >>
    /\ videos = << >>
    /\ uploads = << >>
    /\ ledger = << >>
    /\ now = 1
    /\ calls = [ generate |-> 0, generate_raised |-> 0, render |-> 0, merge |-> 0,
                 merge_raised |-> 0, upload |-> 0, upload_raised |-> 0,
                 commit_raised |-> 0 ]
    /\ executed = << >>
    /\ failedStages = {}
    /\ writeFailed = {}
    /\ va = VideoAgentIdle
    /\ runs = NoRuns
    /\ operation = NoOperation
    /\ session = VideoWorkflowAgent(TRUE)
    /\ \E n \in [ 1..MaxRuns -> 2..MaxSegments ] :
            merging = [ filelist |-> None,
                        merge |-> [ r \in 1..MaxRuns |-> MergeCall(r, n[r]) ] ]

\* video_generator.py 130-132: file_list_path.write_text(...) creates the
\* list or replaces what it holds.
merge_videos_write ==
    \E r \in DOMAIN merging.merge :
        /\ merging.merge[r].pc = "start"
        /\ merging' = [merging EXCEPT !.filelist = Some(merging.merge[r].video_paths),
                                      !.merge[r].pc = "written"]
        /\ UNCHANGED mergeCallerVars

\* video_generator.py 134-147: ffmpeg, started in a thread, opens the list
\* named on its command line and reads it.
ffmpeg_read ==
    \E r \in DOMAIN merging.merge :
        /\ merging.merge[r].pc = "written"
        /\ merging' = [merging EXCEPT !.merge[r].read = merging.filelist,
                                      !.merge[r].opened = TRUE,
                                      !.merge[r].pc = "concat"]
        /\ UNCHANGED mergeCallerVars

\* video_generator.py 147-157: ffmpeg exits.  A non-zero exit (always when
\* the list was absent) raises CalledProcessError and the list stays; else
\* unlink() removes the list, raising when another call removed it.
merge_videos_return ==
    \E r \in DOMAIN merging.merge :
        /\ merging.merge[r].pc = "concat"
        /\ \E ffmpegOk \in BOOLEAN :
            IF merging.merge[r].read = None \/ ~ffmpegOk
            THEN merging' = [merging EXCEPT !.merge[r].pc = "raised"]
            ELSE IF merging.filelist = None
            THEN merging' = [merging EXCEPT !.merge[r].pc = "raised"]
            ELSE merging' = [merging EXCEPT !.filelist = None,
                                            !.merge[r].pc = "returned"]
        /\ UNCHANGED mergeCallerVars

MergeNext ==
    \/ merge_videos_write
    \/ ffmpeg_read
    \/ merge_videos_return

MergeSpec == MergeInit /\ [][MergeNext]_vars

(***************************************************************************)
(* The CLI command `generate`: src/cli.py main, ProjectManagerAgent.run    *)
(* and generate_episode, RunWorkflowSkill.execute.  The skill calls        *)
(* VideoWorkflowAgent.run and reads the attribute `error` of what it       *)
(* returns.  run returns what graph.ainvoke returned: a mapping (dict), as *)
(* workflow.py 316-317 notes, or an object with attributes.                *)
(***************************************************************************)
FinalStateKinds == { "mapping", "object" }

\* RunWorkflowSkill.execute (project_skills.py 106-137).  returned says
\* whether run returned (else it raised), st is the final state, kind its
\* representation.  `result.error` on a mapping raises AttributeError, which
\* the skill's except clause turns into a failed result.
RunWorkflowSkill(returned, st, kind) ==
    IF ~returned \/ kind = "mapping"
    THEN SkillFailed("Workflow execution failed")
    ELSE IF TruthyStr(st.error)
    THEN SkillSuccess([ success |-> FALSE, error |-> st.error ])
    ELSE SkillSuccess([ success |-> TRUE, error |-> None ])

\* ProjectManagerAgent.run_workflow (project_manager_agent.py 77-82).
run_workflow(result) == IF is_success(result) THEN result.data ELSE None

\* ProjectManagerAgent.generate_episode (project_manager_agent.py 139-163).
generate_episode(workflow_result) ==
    IF workflow_result = None
    THEN [ success |-> FALSE, message |-> "Workflow execution failed" ]
    ELSE IF workflow_result[1].success
    THEN [ success |-> TRUE, message |-> "generated successfully" ]
    ELSE [ success |-> FALSE, message |-> "Episode generation failed" ]

\* src/cli.py 215-225: the success flag that is printed and the exit code.
cli_generate(returned, st, kind) ==
    LET result == generate_episode(run_workflow(RunWorkflowSkill(returned, st, kind)))
    IN [ printed_success |-> result.success,
         exit_code |-> IF result.success THEN 0 ELSE 1 ]

(***************************************************************************)
(* The ledger row of this run, once it is committed.                       *)
(***************************************************************************)
HasEntry == TruthyInt(execution_id) /\ execution_id[1] \in DOMAIN ledger
Entry == ledger[execution_id[1]]

(***************************************************************************)
(* C1.  When a run in which the Story, Video or Publish node recorded an   *)
(* error returns its final WorkflowState, that state has a non-empty error *)
(* and current_step = "error", and the run's ledger row is failed.         *)
(***************************************************************************)
C1_StageFailureEndsInError ==
    (pc = "returned" /\ failedStages # {}) =>
        /\ TruthyStr(state.error)
        /\ state.current_step = "error"
        /\ HasEntry
        /\ Entry.status = "failed"

C1_Witness ==
    /\ pc = "returned"
    /\ "upload_to_youtube" \in failedStages
    /\ HasEntry
    /\ Entry.status = "failed"

(***************************************************************************)
(* C2.  No stage after a failing one executes: once the Story node has     *)
(* failed the renderer and the uploader are not invoked, once the Video    *)
(* node has failed the uploader is not invoked, and once any stage node    *)
(* has failed save_history is not executed.                                *)
(***************************************************************************)
C2_NoStageAfterFailure ==
    [][ /\ "generate_story" \in failedStages =>
                calls'.render = calls.render /\ calls'.upload = calls.upload
        /\ "generate_videos" \in failedStages => calls'.upload = calls.upload
        /\ failedStages # {} =>
                (executed' = executed \/ Last(executed') # "save_history") ]_vars

C2_Witness ==
    /\ pc = "returned"
    /\ "generate_videos" \in failedStages
    /\ calls.render > 0
    /\ calls.upload = 0
    /\ Last(executed) = "handle_error"

(***************************************************************************)
(* C3.  When run returns normally the ledger row is completed exactly when *)
(* the final state carries no error and failed otherwise, never running;   *)
(* its story, video and upload ids are those of the final state and its    *)
(* error message is the final state's error.                               *)
(***************************************************************************)
C3_LedgerMirrorsFinalState ==
    pc = "returned" =>
        /\ HasEntry
        /\ Entry.status = (IF TruthyStr(state.error) THEN "failed" ELSE "completed")
        /\ Entry.story_id = state.story_id
        /\ Entry.video_generation_id = state.video_generation_id
        /\ Entry.youtube_upload_id = state.youtube_upload_id
        /\ Entry.error_message = state.error

C3_Witness ==
    /\ pc = "returned"
    /\ HasEntry
    /\ Entry.status = "failed"
    /\ Entry.error_message = state.error
    /\ TruthyInt(Entry.story_id)
    /\ TruthyInt(Entry.video_generation_id)
    /\ Entry.youtube_upload_id = None

(***************************************************************************)
(* C4.  The conditional edges are exact: after generate_story the run goes *)
(* to generate_videos iff there is no error and a story exists, after      *)
(* generate_videos to upload_to_youtube iff there is no error and a final  *)
(* video path is set, after upload_to_youtube to save_history iff there is *)
(* no error and an upload result exists; otherwise to handle_error.        *)
(***************************************************************************)
C4_EdgesExact ==
    [][ /\ (pc = "after_generate_story" /\ pc' # pc) =>
                pc' = IF ~TruthyStr(state.error) /\ state.story # None
                      THEN "generate_videos" ELSE "handle_error"
        /\ (pc = "after_generate_videos" /\ pc' # pc) =>
                pc' = IF ~TruthyStr(state.error) /\ TruthyStr(state.final_video_path)
                      THEN "upload_to_youtube" ELSE "handle_error"
        /\ (pc = "after_upload_to_youtube" /\ pc' # pc) =>
                pc' = IF ~TruthyStr(state.error) /\ state.upload_result # None
                      THEN "save_history" ELSE "handle_error" ]_vars

C4_Witness ==
    /\ pc = "handle_error"
    /\ Last(executed) = "generate_videos"
    /\ TruthyStr(state.error)
    /\ state.story # None

(***************************************************************************)
(* C5.  Before the first graph node runs, a ledger row with status running *)
(* has been created and committed for the run, and the execution id of the *)
(* initial WorkflowState is that row's id.                                 *)
(***************************************************************************)
C5_LedgerCreatedBeforeGraph ==
    /\ pc = "load_history" =>
            /\ executed = << >>
            /\ HasEntry
            /\ Entry.status = "running"
            /\ state.execution_id = execution_id
            /\ state = WorkflowState(args.episode_number, state.privacy_status, execution_id)
    /\ executed # << >> => HasEntry /\ state.execution_id = execution_id

C5_Witness ==
    /\ pc = "load_history"
    /\ HasEntry
    /\ Entry.status = "running"
    /\ state.execution_id = Some(1)

C9_ExceptMarksFailedAndReraises ==
    (pc = "raised" /\ HasEntry) =>
        /\ Entry.status = "failed"
        /\ Entry.error_message = caught
        /\ raised = caught

(***************************************************************************)
(* C10.  Once the error of the WorkflowState is non-empty, no node run     *)
(* afterwards changes story, story_id, final_video_path,                   *)
(* video_generation_id, upload_result or youtube_upload_id; the only node  *)
(* that runs after an error is handle_error, and it changes nothing but    *)
(* current_step.                                                           *)
(***************************************************************************)
C10_ErrorFreezesState ==
    [][ TruthyStr(state.error) =>
            /\ state'.story = state.story
            /\ state'.story_id = state.story_id
            /\ state'.final_video_path = state.final_video_path
            /\ state'.video_generation_id = state.video_generation_id
            /\ state'.upload_result = state.upload_result
            /\ state'.youtube_upload_id = state.youtube_upload_id
            /\ executed' # executed =>
                    /\ executed' = Append(executed, "handle_error")
                    /\ state' = [state EXCEPT !.current_step = "error"]
            /\ executed' = executed => state' = state ]_vars

C10_Witness ==
    /\ Len(executed) >= 2
    /\ Last(executed) = "handle_error"
    /\ TruthyStr(state.error)
    /\ state.story # None
    /\ TruthyInt(state.story_id)
    /\ state.current_step = "error"

(***************************************************************************)
(* C11.  When a repository write inside a stage fails (saving the story,   *)
(* the video progress record or the upload record), the write is rolled    *)
(* back, nothing is raised out of the stage, and the stage reports failure:*)
(* the node records an error and the run is routed to handle_error instead *)
(* of continuing.                                                          *)
(***************************************************************************)
C11_WriteFailureFailsStage ==
    /\ "save_story" \in writeFailed => "generate_story" \in failedStages
    /\ writeFailed \cap {"save_video", "update_video"} # {} =>
            "generate_videos" \in failedStages
    /\ "save_upload" \in writeFailed => "upload_to_youtube" \in failedStages
    /\ (writeFailed # {} /\ pc = "returned") =>
            /\ TruthyStr(state.error)
            /\ Last(executed) = "handle_error"

(***************************************************************************)
(* C18.  The uploader is invoked at most once per run.  When its upload    *)
(* raises, no upload record is persisted, the WorkflowState has a          *)
(* non-empty error, current_step = "error" and no youtube_upload_id, and   *)
(* the ledger row of a run that returns is failed with a null              *)
(* youtube_upload_id.                                                      *)
(***************************************************************************)
C18_UploadFailureIsTerminal ==
    /\ calls.upload <= 1
    /\ calls.upload_raised > 0 =>
            /\ uploads = << >>
            /\ TruthyStr(state.error)
            /\ state.current_step = "error"
            /\ state.upload_result = None
            /\ state.youtube_upload_id = None
            /\ pc \notin {"save_history"}
            /\ "save_history" \notin {executed[i] : i \in DOMAIN executed}
    /\ (calls.upload_raised > 0 /\ pc = "returned") =>
            /\ HasEntry
            /\ Entry.status = "failed"
            /\ Entry.youtube_upload_id = None

C18_Witness ==
    /\ pc = "returned"
    /\ calls.upload = 1
    /\ calls.upload_raised = 1
    /\ uploads = << >>
    /\ HasEntry
    /\ Entry.status = "failed"
    /\ TruthyInt(Entry.video_generation_id)

(***************************************************************************)
(* C19.  When run is given no episode and the loaded history has length n, *)
(* the Story node generates the story under episode n + 1 and the row it   *)
(* persists carries that episode; an episode given to run is used          *)
(* unchanged.                                                              *)
(***************************************************************************)
C19_EpisodeAssignment ==
    [][ (pc = "generate_story" /\ state'.story # None) =>
            LET e == IF args.episode_number = None
                     THEN Len(state.story_history) + 1
                     ELSE args.episode_number[1]
            IN  /\ state'.story[1].episode = e
                /\ stories' # stories => Last(stories').episode = e ]_vars

(***************************************************************************)
(* C20.  Malformed generator output never fails the Story stage: for every *)
(* response text parse_story_response raises nothing and returns a story   *)
(* document of the requested episode, so the Story node records a failure  *)
(* exactly when the generator's API call raised, and otherwise holds a     *)
(* story of the episode it asked for.                                      *)
(***************************************************************************)
C20_ParseNeverFailsStage ==
    [][ (pc = "generate_story" /\ pc' = "after_generate_story") =>
            LET asked == IF TruthyInt(state.episode_number)
                         THEN state.episode_number[1]
                         ELSE Len(state.story_history) + 1
                call_raised == calls'.generate_raised > calls.generate_raised
            IN  /\ \A t \in Responses :
                        /\ ~parse_story_response(t, asked).raised
                        /\ parse_story_response(t, asked).story # None
                        /\ parse_story_response(t, asked).story[1].episode = asked
                /\ ("generate_story" \in failedStages') = call_raised
                /\ ~call_raised => /\ state'.story # None
                                   /\ state'.story[1].episode = asked ]_vars

C20_Witness ==
    /\ pc = "after_generate_story"
    /\ calls.generate = 1
    /\ calls.generate_raised = 0
    /\ state.story # None
    /\ state.story[1].title = "default"
    /\ Len(state.story[1].video_prompts) = DefaultPrompts
    /\ ~TruthyStr(state.error)

(***************************************************************************)
(* The renders of the call that have returned, and the progress record.    *)
(***************************************************************************)
AllMock == \A i \in DOMAIN va.rendered : va.rendered[i].result.mock
NoneMock == \A i \in DOMAIN va.rendered : ~va.rendered[i].result.mock
HasRecord == TruthyInt(va.video_generation_id) /\ va.video_generation_id[1] \in DOMAIN videos
Record == videos[va.video_generation_id[1]]

C13_RenderedInOrder ==
    [][ /\ va'.started # va.started =>
                /\ Len(va.started) = Len(va.rendered)
                /\ Len(va.started) < Len(va.prompts)
                /\ va'.started = Append(va.started, va.prompts[Len(va.started) + 1])
        /\ Len(va'.started) - Len(va'.rendered) \in {0, 1}
        /\ \A i \in DOMAIN va'.rendered : va'.rendered[i].prompt = va'.prompts[i]
        /\ (va'.merge_args # va.merge_args /\ NoneMock) =>
                LET handed == Last(va'.merge_args)
                IN  /\ Len(va.prompts) > 1
                    /\ Len(handed) = Len(va.prompts)
                    /\ \A i \in DOMAIN handed :
                            /\ va.rendered[i].prompt = va.prompts[i]
                            /\ handed[i] = va.rendered[i].result.video_url[1]
                    /\ va'.filelist = Some(handed) ]_vars

C13_Witness ==
    /\ va.pc = "merge"
    /\ Len(va.prompts) = 3
    /\ NoneMock
    /\ Len(va.paths) = 3
    /\ va.paths[1] # va.paths[2]
    /\ va.filelist = Some(va.paths)
    /\ va.merge_args = << va.paths >>

(***************************************************************************)
(* C14.  When exactly one segment yields a usable path, the Video stage    *)
(* makes no concatenation call and returns that path unchanged as its      *)
(* video path.                                                             *)
(***************************************************************************)
C14_SinglePathNoMerge ==
    (Len(va.paths) = 1 /\ va.pc \in {"merge", "finish", "done"}) =>
        /\ va.pc # "merge"
        /\ va.merge_args = << >>
        /\ calls.merge = 0
        /\ va.filelist = None
        /\ va.sequence = Some([ raised |-> FALSE, value |-> va.paths[1] ])
        /\ va.pc = "done" =>
                /\ va.result[1].success
                /\ va.result[1].video_path = Some(va.paths[1])

C14_Witness ==
    /\ va.pc = "done"
    /\ Len(va.prompts) = 1
    /\ Len(va.paths) = 1
    /\ NoneMock
    /\ calls.merge = 0
    /\ va.result[1].video_path = Some(va.paths[1])

(***************************************************************************)
(* C15.  When no segment yields a usable path (k = 0 included), the Video  *)
(* stage returns a failed result with an error and no video path, and for  *)
(* a progress record that was created it issues the update to failed; the  *)
(* record is failed with the error message unless that update was rolled   *)
(* back.                                                                   *)
(***************************************************************************)
C15_NoPathFailsStage ==
    (va.pc = "done" /\ va.paths = << >>) =>
        /\ ~va.result[1].success
        /\ va.result[1].video_path = None
        /\ TruthyStr(va.result[1].error)
        /\ calls.merge = 0
        /\ TruthyInt(va.video_generation_id) =>
                /\ HasRecord
                /\ va.update = Some("failed")
                /\ "update_video" \notin writeFailed =>
                        /\ Record.status = "failed"
                        /\ Record.error_message = va.result[1].error

C15_Witness ==
    /\ va.pc = "done"
    /\ va.prompts = << >>
    /\ va.paths = << >>
    /\ ~va.result[1].success
    /\ HasRecord
    /\ Record.status = "failed"

(***************************************************************************)
(* C16.  With a story id, the progress record is created with status       *)
(* processing before the first render starts (unless the insert was rolled *)
(* back).  When the Video stage returns and a record was created, it has   *)
(* issued the update of the record, to completed if the stage succeeded    *)
(* and to failed otherwise; unless that update was rolled back the record  *)
(* is no longer processing: completed with the final video path, or failed *)
(* with the error message.                                                 *)
(***************************************************************************)
C16_RecordFollowsStage ==
    [][ /\ (va'.started # va.started /\ TruthyInt(va.story_id)
                /\ "save_video" \notin writeFailed) =>
                /\ HasRecord
                /\ Record.story_id = va.story_id[1]
                /\ Record.status = "processing"
        /\ (va'.pc = "done" /\ TruthyInt(va'.video_generation_id)) =>
                LET r == videos'[va'.video_generation_id[1]]
                    res == va'.result[1]
                IN  /\ va'.update = Some(IF res.success THEN "completed" ELSE "failed")
                    /\ "update_video" \notin writeFailed' =>
                            IF res.success
                            THEN /\ r.status = "completed"
                                 /\ r.video_path = res.video_path
                                 /\ TruthyStr(r.video_path)
                            ELSE /\ r.status = "failed"
                                 /\ r.error_message = res.error
                                 /\ TruthyStr(r.error_message) ]_vars

C16_Witness ==
    /\ va.pc = "done"
    /\ Len(va.prompts) = 2
    /\ HasRecord
    /\ va.result[1].success
    /\ Record.status = "completed"
    /\ Record.video_path = Some(OutputFile)

(***************************************************************************)
(* C17.  A concatenation failure is a hard failure of the Video stage:     *)
(* merge_videos is invoked at most once per stage execution, and when      *)
(* ffmpeg fails it is not run again and the stage returns a failed result  *)
(* with an error and no video path, although every segment was rendered.   *)
(***************************************************************************)
C17_MergeFailureIsHard ==
    /\ calls.merge <= 1
    /\ Len(va.merge_args) = calls.merge
    /\ va.ffmpeg = Some(FALSE) =>
            /\ va.pc \in {"finish", "done"}
            /\ Len(va.paths) = Len(va.prompts)
            /\ sequence_video_path(va.sequence[1]) = None
            /\ va.pc = "done" =>
                    /\ ~va.result[1].success
                    /\ va.result[1].video_path = None
                    /\ TruthyStr(va.result[1].error)

C17_Witness ==
    /\ va.pc = "done"
    /\ va.ffmpeg = Some(FALSE)
    /\ calls.merge = 1
    /\ Len(va.paths) = 3
    /\ NoneMock
    /\ ~va.result[1].success
    /\ va.result[1].video_path = None

(***************************************************************************)
(* C21.  Every skill execution returns one SkillResult: its status is      *)
(* success or failed, never pending; a failed result carries an error      *)
(* string and no data; a success result carries no error string; and       *)
(* is_success is true exactly when the status is success.  Stated of the   *)
(* skills of the story and video stages, for every outcome of their        *)
(* collaborators, whenever the stage that executes them runs.              *)
(***************************************************************************)
SkillResultWellFormed(r) ==
    /\ r.status \in {"success", "failed"}
    /\ r.status = "failed" => (r.error # None /\ r.data = None)
    /\ r.status = "success" => r.error = None
    /\ is_success(r) <=> r.status = "success"

C22_SkipMode ==
    [][ settings.skip_video_generation =>
            /\ calls'.render = 0
            /\ calls'.merge = 0
            /\ videos' = << >>
            /\ \A i \in DOMAIN executed' : executed'[i] \in GraphNodes
            /\ (pc = "generate_videos" /\ pc' = "after_generate_videos") =>
                    IF settings.test_video_path # ""
                    THEN /\ state'.final_video_path = Some(settings.test_video_path)
                         /\ state'.video_generation_id = None
                         /\ state'.error = None
                         /\ state'.current_step = "generate_videos"
                         /\ "generate_videos" \notin failedStages'
                    ELSE /\ TruthyStr(state'.error)
                         /\ state'.final_video_path = None
                         /\ "generate_videos" \in failedStages'
            /\ (pc = "after_generate_videos" /\ pc' # pc) =>
                    pc' = IF settings.test_video_path # ""
                          THEN "upload_to_youtube" ELSE "handle_error"
      ]_vars

C22_Witness ==
    /\ settings.skip_video_generation
    /\ settings.test_video_path = "test.mp4"
    /\ pc = "returned"
    /\ executed = << "load_history", "generate_story", "generate_videos",
                     "upload_to_youtube", "save_history" >>
    /\ state.final_video_path = Some("test.mp4")
    /\ state.video_generation_id = None
    /\ TruthyInt(state.story_id)
    /\ calls.upload = 1
    /\ videos = << >>

(***************************************************************************)
(* C23.  A run without an explicit episode, skip mode off, that starts     *)
(* from an empty history and in which every collaborator succeeds (the     *)
(* generator returns a story with at least one video prompt, ffmpeg and    *)
(* the uploader return, every repository write and the commit of           *)
(* save_history get through) generates episode 1, executes load_history,   *)
(* generate_story, generate_videos, upload_to_youtube and save_history,    *)
(* and returns with its ledger row completed and story_id,                 *)
(* video_generation_id and youtube_upload_id non-null in the ledger.       *)
(* A returned run with no failed write started from an empty history       *)
(* exactly when story_history holds one row.                               *)
(***************************************************************************)
CollaboratorsSucceeded ==
    /\ calls.generate_raised = 0
    /\ calls.merge_raised = 0
    /\ calls.upload_raised = 0
    /\ calls.commit_raised = 0
    /\ writeFailed = {}
    /\ state.story # None => state.story[1].video_prompts # << >>

C23_HappyPath ==
    (/\ pc = "returned"
     /\ args.episode_number = None
     /\ ~settings.skip_video_generation
     /\ Len(stories) <= 1
     /\ CollaboratorsSucceeded) =>
        /\ executed = << "load_history", "generate_story", "generate_videos",
                         "upload_to_youtube", "save_history" >>
        /\ state.story # None
        /\ state.story[1].episode = 1
        /\ stories = << StoredStory(1) >>
        /\ state.error = None
        /\ HasEntry
        /\ Entry.status = "completed"
        /\ Entry.story_id # None
        /\ Entry.video_generation_id # None
        /\ Entry.youtube_upload_id # None
        /\ Entry.story_id = state.story_id
        /\ Entry.video_generation_id = state.video_generation_id
        /\ Entry.youtube_upload_id = state.youtube_upload_id

C23_Witness ==
    /\ pc = "returned"
    /\ args.episode_number = None
    /\ ~settings.skip_video_generation
    /\ stories = << StoredStory(1) >>
    /\ CollaboratorsSucceeded
    /\ calls.generate = 1
    /\ calls.render = 2
    /\ calls.merge = 1
    /\ calls.upload = 1
    /\ Entry.status = "completed"
    /\ Entry.youtube_upload_id = Some(1)

(***************************************************************************)
(* C24.  When several runs execute concurrently on one store, under every  *)
(* interleaving no two runs have the same ledger id; the ledger row of a   *)
(* run that returned carries the status, the linked ids and the error      *)
(* message of that run's own final WorkflowState; and a step of one run    *)
(* leaves the ledger row of every other run as it was.                     *)
(***************************************************************************)
RunHasEntry(r) ==
    /\ TruthyInt(runs.run[r].execution_id)
    /\ runs.run[r].execution_id[1] \in DOMAIN ledger

RunEntryOf(r) == ledger[runs.run[r].execution_id[1]]

C24_RunsAreIsolated ==
    [][ /\ \A r, q \in DOMAIN runs'.run :
              (r # q /\ runs'.run[r].execution_id # None) =>
                    runs'.run[r].execution_id # runs'.run[q].execution_id
        /\ \A r \in DOMAIN runs'.run :
              LET me == runs'.run[r]
                  id == me.execution_id[1]
              IN  me.pc = "returned" =>
                    /\ id \in DOMAIN ledger'
                    /\ ledger'[id].status = exit_status(me.state.error)
                    /\ ledger'[id].episode_number = me.args.episode_number
                    /\ ledger'[id].story_id = me.state.story_id
                    /\ ledger'[id].video_generation_id = me.state.video_generation_id
                    /\ ledger'[id].youtube_upload_id = me.state.youtube_upload_id
                    /\ ledger'[id].error_message = me.state.error
        /\ \A r \in DOMAIN runs.run :
              (runs'.run[r] = runs.run[r] /\ RunHasEntry(r)) =>
                    /\ runs.run[r].execution_id[1] \in DOMAIN ledger'
                    /\ ledger'[runs.run[r].execution_id[1]] = RunEntryOf(r)
      ]_vars

\* Run 2 drew its id first; run 1 completed and run 2 failed, side by side.
C24_Witness ==
    /\ runs.run[1].pc = "returned"
    /\ runs.run[2].pc = "returned"
    /\ runs.run[1].execution_id = Some(2)
    /\ runs.run[2].execution_id = Some(1)
    /\ RunEntryOf(1).status = "completed"
    /\ TruthyInt(RunEntryOf(1).youtube_upload_id)
    /\ RunEntryOf(2).status = "failed"
    /\ RunEntryOf(2).error_message # None

(***************************************************************************)
(* C25.  Within one run the stages execute one after the other in the      *)
(* order load_history, generate_story, generate_videos, upload_to_youtube, *)
(* save_history, each at most once: the nodes executed so far are a prefix *)
(* of that order, or such a prefix ending in one of the three conditional  *)
(* stages followed by handle_error, and the node about to execute is the   *)
(* next of the order or handle_error.  When the graph has ended, the last  *)
(* node executed is save_history or handle_error, and exactly one of the   *)
(* two was executed.                                                       *)
(***************************************************************************)
StageOrder ==
    << "load_history", "generate_story", "generate_videos", "upload_to_youtube",
       "save_history" >>

IsPrefix(s, t) == Len(s) <= Len(t) /\ \A i \in DOMAIN s : s[i] = t[i]

Front(s) == SubSeq(s, 1, Len(s) - 1)

C25_StagesInOrder ==
    /\ \/ IsPrefix(executed, StageOrder)
       \/ /\ executed # << >>
          /\ Last(executed) = "handle_error"
          /\ IsPrefix(Front(executed), StageOrder)
          /\ Len(Front(executed)) \in 2..4
    /\ pc \in {StageOrder[i] : i \in DOMAIN StageOrder} =>
            /\ IsPrefix(executed, StageOrder)
            /\ StageOrder[Len(executed) + 1] = pc
    /\ pc = "handle_error" =>
            /\ IsPrefix(executed, StageOrder)
            /\ Len(executed) \in 2..4
    /\ pc \in {"end", "report", "returned"} =>
            /\ Last(executed) \in {"save_history", "handle_error"}
            /\ Cardinality({ i \in DOMAIN executed :
                                executed[i] \in {"save_history", "handle_error"} }) = 1

C25_Witness ==
    /\ pc = "returned"
    /\ executed = << "load_history", "generate_story", "generate_videos", "handle_error" >>
    /\ calls.merge_raised = 1

(***************************************************************************)
(* C26.  When a run has ended, the current_step of its ledger row names    *)
(* the last step the run reached: the current_step of the final            *)
(* WorkflowState, "error" for a failed run.                                *)
(***************************************************************************)
C26_LedgerNamesLastStep ==
    (pc = "returned" /\ HasEntry) =>
        /\ Entry.current_step = Some(state.current_step)
        /\ Entry.status = "failed" => Entry.current_step = Some("error")

(***************************************************************************)
(* C27.  For the CLI command `generate`, the exit code is 0 exactly when   *)
(* the workflow run finished without error and 1 otherwise, and the        *)
(* printed success flag agrees with the exit code, when the final state    *)
(* that the graph execution returns is a mapping.                          *)
(***************************************************************************)
C27_ExitCodeFollowsRun ==
    pc \in {"returned", "raised"} =>
        LET out == cli_generate(pc = "returned", state, "mapping")
        IN  /\ out.exit_code = 0 <=> (pc = "returned" /\ ~TruthyStr(state.error))
            /\ out.exit_code \in {0, 1}
            /\ out.printed_success <=> out.exit_code = 0

(***************************************************************************)
(* C28.  duration_seconds of a finished ledger row is never negative and   *)
(* equals the whole-second difference completed_at - started_at; the       *)
(* computation gives that same value whether started_at is read back as an *)
(* aware datetime (in UTC or in another zone) or without timezone          *)
(* information, the latter being taken as UTC.                             *)
(***************************************************************************)
ZoneOffsets == { -1, 0, 1 }

Unparseable == { t \in Responses : parse_story_response(t, 1).story = Some(DefaultStory(1)) }

WithoutDate(doc) == [ f \in DOMAIN doc \ {"date"} |-> doc[f] ]

C30_ErrorIffErrorStep ==
    pc = "returned" =>
        /\ TruthyStr(state.error) <=> state.current_step = "error"
        /\ calls.commit_raised > 0 => state.current_step = "error"

(***************************************************************************)
(* C31.  Whenever the ledger row of a run ends completed, its story_id and *)
(* its youtube_upload_id are non-null, and its video_generation_id is      *)
(* non-null unless the skip switch is enabled; this holds for every run,   *)
(* also when a write of a story, progress or upload record failed.         *)
(***************************************************************************)
C31_CompletedHasIds ==
    (pc \in {"returned", "raised"} /\ HasEntry /\ Entry.status = "completed") =>
        /\ Entry.story_id # None
        /\ Entry.youtube_upload_id # None
        /\ ~settings.skip_video_generation => Entry.video_generation_id # None

(***************************************************************************)
(* C32.  Whenever the ledger row of a run ends failed, the upload of the   *)
(* publisher did not succeed in that run: no run both publishes a video    *)
(* and records itself as failed.                                           *)
(***************************************************************************)
UploadSucceeded == calls.upload > calls.upload_raised

C32_FailedMeansNotPublished ==
    (pc \in {"returned", "raised"} /\ HasEntry /\ Entry.status = "failed") =>
        ~UploadSucceeded

(***************************************************************************)
(* C33.  In a run without an explicit episode, the episode the story step  *)
(* assigns to the story it generates is never the episode of a story       *)
(* already in the store, whatever the history load returned.               *)
(***************************************************************************)
StoredEpisodes == { stories[i].episode : i \in DOMAIN stories }

C33_AutoEpisodeIsFresh ==
    [][ ( /\ pc = "generate_story" /\ pc' = "after_generate_story"
          /\ args.episode_number = None
          /\ state'.story # None )
        => state'.story[1].episode \notin StoredEpisodes ]_vars

(***************************************************************************)
(* C34.  Two concurrent runs that both start without an explicit episode   *)
(* never both reach the upload with a story of the same episode number: at *)
(* most one run publishes a video for a given episode.                     *)
(***************************************************************************)
RunPublished(r) == runs.run[r].state.upload_result # None

C34_OneUploadPerEpisode ==
    \A r1 \in DOMAIN runs.run, r2 \in DOMAIN runs.run :
        ( /\ r1 # r2
          /\ runs.run[r1].args.episode_number = None
          /\ runs.run[r2].args.episode_number = None
          /\ RunPublished(r1) /\ RunPublished(r2) )
        => runs.run[r1].state.story[1].episode # runs.run[r2].state.story[1].episode

(***************************************************************************)
(* C36.  A session that run created itself, the agent having been          *)
(* constructed without one, is closed when run has returned or raised, and *)
(* a session supplied by the caller is never closed by run.                *)
(***************************************************************************)
C36_SessionClosed ==
    /\ pc \in {"returned", "raised"} => "created" \notin session.open
    /\ session.db_session = Some("supplied") => "supplied" \in session.open

(***************************************************************************)
(* C35.  When the Video stages of two runs overlap, each concatenation     *)
(* reads exactly the ordered segment list its own run wrote: filelist.txt  *)
(* is not overwritten or removed by another run between a run's write and  *)
(* the read of its concatenation tool.                                     *)
(***************************************************************************)
C35_ReadsOwnList ==
    \A r \in DOMAIN merging.merge :
        merging.merge[r].opened => merging.merge[r].read = Some(merging.merge[r].video_paths)

(***************************************************************************)
(* C37.  Every run terminates: when every external call eventually returns *)
(* or raises and the render operation is eventually reported done, run     *)
(* eventually returns or raises, and from then on the ledger row created   *)
(* for the run is not running.                                             *)
(***************************************************************************)
RunEnded == pc \in {"returned", "raised"}

RunTerminates == <>RunEnded

C37_TerminatesAndLedgerSettled ==
    /\ RunTerminates
    /\ [](RunEnded => (HasEntry => Entry.status # "running"))

====
